---- MODULE Spec2Model ----
(***************************************************************************)
(* Billing ledger of mi-portal: fee schedules, monthly charges, payment    *)
(* submissions with their review workflow, payment allocations, and the    *)
(* credit-application engine (billing/models.py, billing/services.py,      *)
(* billing/admin.py).                                                      *)
(*                                                                         *)
(* Money is modelled in whole currency units (the code uses Decimal with   *)
(* two places; no operation of the ledger divides or rounds).  Dates are   *)
(* triples <<year, month, day>>.  The code only compares timestamps of the *)
(* same column, so each column is modelled by its rank: reviewed_at is the *)
(* reading of a clock that advances at every timezone.now() of a review,   *)
(* submitted_at (auto_now_add) is the rank of the row among the payments.  *)
(***************************************************************************)
EXTENDS FiniteSets, Integers, Sequences, TLC

VARIABLES
    feeSchedules,   \* set of FeeSchedule rows
    charges,        \* sequence of MonthlyCharge rows, pk = index
    payments,       \* sequence of PaymentSubmission rows, pk = index
    allocations,    \* set of PaymentAllocation rows
    now,            \* the clock behind timezone.now() in the review functions
    handles,        \* per session: the payment object a reject_view in flight has read
    last,           \* outcome of the last operation (return value, error)
    feeQuery,       \* SpecFee: the last fee_for query and its result
    tx,             \* SpecTx: per session, the running credit-application transaction
    owners,         \* core.Owner rows: the community of each owner
    visitPass,      \* SpecVisit: the VisitPass row
    visitScans,     \* SpecVisit: the VisitScan rows, in order of creation
    guards          \* SpecVisit: per guard, the scan request in flight

vars == <<feeSchedules, charges, payments, allocations, now, handles, last, feeQuery, tx,
          owners, visitPass, visitScans, guards>>

\* the variables of the visit passes
visitVars == <<visitPass, visitScans, guards>>

----------------------------------------------------------------------------
(* Bounds of the model *)

MaxPayments == 2
MaxSessions == 1
MaxSchedules == 2

Sessions == 1..MaxSessions

(* Program constants *)

NoUser == 0          \* reviewed_by = NULL
NoTime == 0          \* reviewed_at = NULL

PENDING == "PENDING"
PARTIAL == "PARTIAL"
PAID == "PAID"
VOID == "VOID"

SUBMITTED == "SUBMITTED"
APPROVED == "APPROVED"
REJECTED == "REJECTED"

----------------------------------------------------------------------------
(* The world around the ledger: communities and their units (core.Unit) *)

Residentials == {"R1", "R2"}

NoOwner == "none"     \* Unit.owner = NULL

\* Unit rows in the order the store enumerates them; U2 has no owner yet
\* and is not active
UnitRows ==
    <<[pk |-> "U1", residential |-> "R1", owner |-> "O1", is_active |-> TRUE],
      [pk |-> "U2", residential |-> "R1", owner |-> NoOwner, is_active |-> FALSE]>>

UnitPks == {UnitRows[i].pk : i \in 1..Len(UnitRows)}

UnitResidential(u) == UnitRows[CHOOSE i \in 1..Len(UnitRows) : UnitRows[i].pk = u].residential

\* Unit.objects.filter(residential_id=res.pk), in store order
RECURSIVE UnitsOfFrom(_, _)
UnitsOfFrom(res, i) ==
    IF i > Len(UnitRows) THEN <<>>
    ELSE (IF UnitRows[i].residential = res THEN <<UnitRows[i].pk>> ELSE <<>>)
         \o UnitsOfFrom(res, i + 1)

UnitsOf(res) == UnitsOfFrom(res, 1)

UnitOwner(u) == UnitRows[CHOOSE i \in 1..Len(UnitRows) : UnitRows[i].pk = u].owner

\* Unit.is_active
UnitActive(u) == UnitRows[CHOOSE i \in 1..Len(UnitRows) : UnitRows[i].pk = u].is_active

----------------------------------------------------------------------------
(* Dates *)

DateLE(a, b) ==
    \/ a[1] < b[1]
    \/ a[1] = b[1] /\ a[2] < b[2]
    \/ a[1] = b[1] /\ a[2] = b[2] /\ a[3] <= b[3]

DateLT(a, b) == DateLE(a, b) /\ a # b

\* admin._month_start
MonthStart(d) == <<d[1], d[2], 1>>

\* the step of admin._iter_month_starts
NextMonthStart(cur) ==
    IF cur[2] = 12 THEN <<cur[1] + 1, 1, 1>> ELSE <<cur[1], cur[2] + 1, 1>>

RECURSIVE IterFrom(_, _)
IterFrom(cur, end) ==
    IF DateLE(cur, end) THEN <<cur>> \o IterFrom(NextMonthStart(cur), end) ELSE <<>>

\* admin._iter_month_starts
IterMonthStarts(start, end) == IterFrom(MonthStart(start), MonthStart(end))

----------------------------------------------------------------------------
(* Fee resolution *)

\* mutant: effective_from strictly before the period
FeeFilterStrict(fs, residential, period) ==
    {f \in fs : f.residential = residential /\ DateLT(f.effective_from, period)}

\* FeeSchedule.objects.filter(residential=residential, effective_from__lte=period)
FeeFilter(fs, residential, period) ==
    {f \in fs : f.residential = residential /\ DateLE(f.effective_from, period)}

\* .order_by("-effective_from").first(): the rows that can come first in a
\* descending sort (more than one only when effective_from ties)
FeeFirst(S) == {f \in S : \A g \in S : DateLE(g.effective_from, f.effective_from)}

NoFee == [found |-> FALSE, amount |-> 0]

\* admin._fee_for_month: every result the query can give
FeeForMonthOutcomes(fs, residential, period) ==
    LET first == FeeFirst(FeeFilter(fs, residential, period))
    IN  IF first = {} THEN {NoFee}
        ELSE {[found |-> TRUE, amount |-> f.amount] : f \in first}

\* admin._fee_for_month where the store holds no effective_from tie
FeeForMonth(fs, residential, period) ==
    CHOOSE r \in FeeForMonthOutcomes(fs, residential, period) : TRUE

----------------------------------------------------------------------------
(* Aggregates over allocations *)

RECURSIVE SumApplied(_)
SumApplied(S) ==
    IF S = {} THEN 0
    ELSE LET a == CHOOSE x \in S : TRUE
         IN  a.amount_applied + SumApplied(S \ {a})

Max2(a, b) == IF a >= b THEN a ELSE b

\* mutant: allocations of every payment count
ChargeAllocatedAnyPayment(P, A, c) == SumApplied({a \in A : a.charge = c})

\* MonthlyCharge.allocated_amount: allocations of APPROVED payments only
ChargeAllocated(P, A, c) ==
    SumApplied({a \in A : a.charge = c /\ P[a.payment].status = APPROVED})

\* MonthlyCharge.balance
ChargeBalance(P, C, A, c) == Max2(C[c].amount - ChargeAllocated(P, A, c), 0)

\* the annotation of the payments query: Sum("allocations__amount_applied")
PaymentAllocated(A, p) == SumApplied({a \in A : a.payment = p})

\* the annotation F("amount") - Coalesce(Sum(...), 0)
PaymentRemaining(P, A, p) == P[p].amount - PaymentAllocated(A, p)

\* Sum("amount") over the rows of R with pk in S
RECURSIVE SumAmount(_, _)
SumAmount(R, S) ==
    IF S = {} THEN 0
    ELSE LET i == CHOOSE x \in S : TRUE
         IN  R[i].amount + SumAmount(R, S \ {i})

\* Max("reviewed_at") over the payments with pk in S; NULL when S is empty
RECURSIVE MaxReviewedAt(_, _)
MaxReviewedAt(P, S) ==
    IF S = {} THEN NoTime
    ELSE LET i == CHOOSE x \in S : TRUE
         IN  Max2(P[i].reviewed_at, MaxReviewedAt(P, S \ {i}))

----------------------------------------------------------------------------
(* Balance query (billing/services.py) *)

\* credit = paid - applied, floored at zero; likewise due
\* mutant: no floor
FloorZeroNone(x) == x

FloorZero(x) == IF x < 0 THEN 0 ELSE x

\* mutant: the debt is taken against the money received, applied or not,
\* and the credit against the charges
GetUnitBalanceSwapped(P, C, A, u) ==
    LET charged == SumAmount(C, {c \in 1..Len(C) : C[c].unit = u /\ C[c].status # VOID})
        applied == SumApplied({a \in A : C[a.charge].unit = u
                                         /\ P[a.payment].status = APPROVED})
        approved == {p \in 1..Len(P) : P[p].unit = u /\ P[p].status = APPROVED}
        paid == SumAmount(P, approved)
    IN  [total_charged |-> charged,
         total_applied |-> applied,
         credit_available |-> FloorZero(charged - applied),
         balance_due |-> FloorZero(paid - applied),
         unpaid_months |-> Cardinality({c \in 1..Len(C) :
                               C[c].unit = u /\ C[c].status \notin {VOID, PAID}}),
         last_payment_at |-> MaxReviewedAt(P, approved)]

\* get_unit_balance(unit)
GetUnitBalance(P, C, A, u) ==
    LET charged == SumAmount(C, {c \in 1..Len(C) : C[c].unit = u /\ C[c].status # VOID})
        applied == SumApplied({a \in A : C[a.charge].unit = u
                                         /\ P[a.payment].status = APPROVED})
        approved == {p \in 1..Len(P) : P[p].unit = u /\ P[p].status = APPROVED}
        paid == SumAmount(P, approved)
    IN  [total_charged |-> charged,
         total_applied |-> applied,
         credit_available |-> FloorZero(paid - applied),
         balance_due |-> FloorZero(charged - applied),
         unpaid_months |-> Cardinality({c \in 1..Len(C) :
                               C[c].unit = u /\ C[c].status \notin {VOID, PAID}}),
         last_payment_at |-> MaxReviewedAt(P, approved)]

----------------------------------------------------------------------------
(* Status recomputation (billing/models.py) *)

\* recompute_charge_status: the status it derives from the allocated sum
DerivedStatus(allocated, amount) ==
    IF allocated <= 0 THEN PENDING
    ELSE IF allocated < amount THEN PARTIAL
    ELSE PAID

\* mutant: VOID is recomputed like any other status
RecomputeChargeStatusAlways(P, C, A, c) ==
    [C EXCEPT ![c].status = DerivedStatus(ChargeAllocated(P, A, c), C[c].amount)]

\* recompute_charge_status(charge); saves update_fields=["status"]
RecomputeChargeStatus(P, C, A, c) ==
    IF C[c].status = VOID THEN C
    ELSE [C EXCEPT ![c].status = DerivedStatus(ChargeAllocated(P, A, c), C[c].amount)]

----------------------------------------------------------------------------
(* Credit application (billing/services.py) *)

\* mutant: newest review first
PaymentBeforeNewestFirst(P, p, q) ==
    \/ P[p].reviewed_at > P[q].reviewed_at
    \/ P[p].reviewed_at = P[q].reviewed_at /\ P[p].submitted_at > P[q].submitted_at

\* .order_by("reviewed_at", "submitted_at")
PaymentBefore(P, p, q) ==
    \/ P[p].reviewed_at < P[q].reviewed_at
    \/ P[p].reviewed_at = P[q].reviewed_at /\ P[p].submitted_at < P[q].submitted_at

RECURSIVE OrderPayments(_, _)
OrderPayments(P, S) ==
    IF S = {} THEN <<>>
    ELSE LET m == CHOOSE x \in S : \A y \in S : ~PaymentBefore(P, y, x)
         IN  <<m>> \o OrderPayments(P, S \ {m})

\* mutant: the payments of every unit of the community are selected
CreditPaymentsAnyUnit(P, C, A, c) ==
    {p \in 1..Len(P) :
        /\ P[p].residential = C[c].residential
        /\ P[p].status = APPROVED
        /\ PaymentRemaining(P, A, p) > 0}

\* mutant: payments with nothing left are selected too
CreditPaymentsAnyRemaining(P, C, A, c) ==
    {p \in 1..Len(P) :
        /\ P[p].unit = C[c].unit
        /\ P[p].residential = C[c].residential
        /\ P[p].status = APPROVED}

\* the filter of the payments query: same unit and residential, APPROVED,
\* remaining > 0
CreditPayments(P, C, A, c) ==
    {p \in 1..Len(P) :
        /\ P[p].unit = C[c].unit
        /\ P[p].residential = C[c].residential
        /\ P[p].status = APPROVED
        /\ PaymentRemaining(P, A, p) > 0}

\* mutant: the whole balance is taken, whatever the payment has left
ToApplyWholeBalance(remaining, balance) == balance

\* to_apply = remaining if remaining <= balance else balance
ToApply(remaining, balance) == IF remaining <= balance THEN remaining ELSE balance

\* unique_together = [("payment", "charge")]
AllocationUnique(A, p, c) == ~\E a \in A : a.payment = p /\ a.charge = c

\* the loop over the payments; A0 is the store the query was evaluated on.
\* raised: PaymentAllocation.objects.create hit the unique constraint
RECURSIVE WalkPayments(_, _, _, _, _, _, _, _)
WalkPayments(P, A0, A, c, plist, i, balance, applied) ==
    IF i > Len(plist) \/ balance <= 0
    THEN [allocations |-> A, applied |-> applied, raised |-> FALSE]
    ELSE LET p == plist[i]
             to_apply == ToApply(PaymentRemaining(P, A0, p), balance)
         IN  IF ~AllocationUnique(A, p, c)
             THEN [allocations |-> A, applied |-> applied, raised |-> TRUE]
             ELSE WalkPayments(P, A0,
                      A \cup {[payment |-> p, charge |-> c, amount_applied |-> to_apply]},
                      c, plist, i + 1, balance - to_apply, applied + to_apply)

\* mutant: only VOID stops the call
SatisfiedOrFrozenVoidOnly(status) == status = VOID

\* charge.status in [PAID, VOID] on the object the caller passed
SatisfiedOrFrozen(status) == status \in {PAID, VOID}

\* the body of apply_available_credit_to_charge; hs is the status shown by
\* the charge object the caller passed, c its pk
ApplyBody(P, C, A, c, hs) ==
    IF SatisfiedOrFrozen(hs)
    THEN [charges |-> C, allocations |-> A, ret |-> 0, raised |-> FALSE]
    ELSE IF ChargeBalance(P, C, A, c) <= 0
    THEN [charges |-> C, allocations |-> A, ret |-> 0, raised |-> FALSE]
    ELSE LET plist == OrderPayments(P, CreditPayments(P, C, A, c))
             w == WalkPayments(P, A, A, c, plist, 1, ChargeBalance(P, C, A, c), 0)
         IN  IF w.raised
             THEN [charges |-> C, allocations |-> w.allocations, ret |-> 0, raised |-> TRUE]
             ELSE [charges |-> RecomputeChargeStatus(P, C, w.allocations, c),
                   allocations |-> w.allocations, ret |-> w.applied, raised |-> FALSE]

\* mutant: what the block wrote stays when an exception leaves it
TransactionAtomicNoRollback(C, A, out) == out

\* @transaction.atomic: an exception leaving the block rolls the store back
TransactionAtomic(C, A, out) ==
    IF out.raised
    THEN [charges |-> C, allocations |-> A, ret |-> 0, raised |-> TRUE]
    ELSE out

\* apply_available_credit_to_charge(charge)
ApplyAvailableCreditToCharge(P, C, A, c, hs) ==
    TransactionAtomic(C, A, ApplyBody(P, C, A, c, hs))

----------------------------------------------------------------------------
(* Charge generation (MonthlyChargeAdmin.generate_view) *)

\* mutant: the lookup forgets the unit
GetOrCreateLookupAnyUnit(C, res, u, period) ==
    {i \in 1..Len(C) : C[i].residential = res /\ C[i].period = period}

\* the lookup of get_or_create(residential=res, unit=u, period=period)
GetOrCreateLookup(C, res, u, period) ==
    {i \in 1..Len(C) : C[i].residential = res /\ C[i].unit = u /\ C[i].period = period}

\* unique_together = [("unit", "period")]
ChargeUnique(C, u, period) == ~\E i \in 1..Len(C) : C[i].unit = u /\ C[i].period = period

\* mutant: the new charge is left as created
GenUnitNoCredit(P, L, res, period, fee, u) ==
    IF GetOrCreateLookup(L.charges, res, u, period) # {}
    THEN [L EXCEPT !.skipped = @ + 1]
    ELSE [L EXCEPT !.charges = Append(@, [residential |-> res, unit |-> u, period |-> period,
                                          amount |-> fee, status |-> PENDING]),
                   !.created = @ + 1]

\* one pass of the inner loop: get_or_create, then credit on a new charge
GenUnit(P, L, res, period, fee, u) ==
    IF GetOrCreateLookup(L.charges, res, u, period) # {}
    THEN [L EXCEPT !.skipped = @ + 1]
    ELSE IF ~ChargeUnique(L.charges, u, period)
    THEN [L EXCEPT !.raised = TRUE]
    ELSE LET C1 == Append(L.charges,
                      [residential |-> res, unit |-> u, period |-> period,
                       amount |-> fee, status |-> PENDING])
             r == ApplyAvailableCreditToCharge(P, C1, L.allocations, Len(C1), PENDING)
         IN  IF r.raised
             THEN [L EXCEPT !.charges = r.charges, !.allocations = r.allocations,
                            !.raised = TRUE]
             ELSE [L EXCEPT !.charges = r.charges, !.allocations = r.allocations,
                            !.created = @ + 1]

RECURSIVE GenUnits(_, _, _, _, _, _, _)
GenUnits(P, L, res, period, fee, us, i) ==
    IF i > Len(us) \/ L.raised THEN L
    ELSE GenUnits(P, GenUnit(P, L, res, period, fee, us[i]), res, period, fee, us, i + 1)

\* mutant: the loop ends at the first month without a fee
RECURSIVE GenMonthsAbort(_, _, _, _, _, _, _)
GenMonthsAbort(fs, P, L, res, us, months, j) ==
    IF j > Len(months) \/ L.raised THEN L
    ELSE LET fee == FeeForMonth(fs, res, months[j])
         IN  IF ~fee.found
             THEN [L EXCEPT !.missing = Append(@, months[j])]
             ELSE GenMonthsAbort(fs, P, GenUnits(P, L, res, months[j], fee.amount, us, 1),
                                 res, us, months, j + 1)

\* the outer loop over the months of the range
RECURSIVE GenMonths(_, _, _, _, _, _, _)
GenMonths(fs, P, L, res, us, months, j) ==
    IF j > Len(months) \/ L.raised THEN L
    ELSE LET fee == FeeForMonth(fs, res, months[j])
         IN  IF ~fee.found
             THEN GenMonths(fs, P, [L EXCEPT !.missing = Append(@, months[j])],
                            res, us, months, j + 1)
             ELSE GenMonths(fs, P, GenUnits(P, L, res, months[j], fee.amount, us, 1),
                            res, us, months, j + 1)

\* generate_view on a valid form, for the staff user's residential
GenerateCharges(fs, P, C, A, res, start, end) ==
    GenMonths(fs, P,
              [charges |-> C, allocations |-> A, created |-> 0, skipped |-> 0,
               missing |-> <<>>, raised |-> FALSE],
              res, UnitsOf(res), IterMonthStarts(start, end), 1)

----------------------------------------------------------------------------
(* Payment review (billing/models.py) *)

\* what the caller of the last operation got back
Outcome(op, arg, ret, err) ==
    [op |-> op, arg |-> arg, ret |-> ret, skipped |-> 0, missing |-> <<>>, note |-> err]


\* the parameters of def approve_payment(payment, reviewer_user)
ApprovePaymentParams == {"payment", "reviewer_user"}

\* the arguments of the call in approve_view:
\* approve_payment(payment, request.user, auto_allocate=True)
ApproveViewCallArgs == {"payment", "reviewer_user", "auto_allocate"}

\* a call binds only if the function has a parameter for every argument
CallBinds(args, params) == args \subseteq params

\* the object a fresh read of payment p gives
ReadPayment(P, p) ==
    [pk |-> p, status |-> P[p].status, review_notes |-> P[p].review_notes]

\* mutant: every payment not yet
\* APPROVED can be reviewed
ReviewGuardNotApproved(status) == status # APPROVED

\* the guard of approve_payment and reject_payment, on the object passed
ReviewGuard(status) == status = SUBMITTED

\* approve_payment(payment, reviewer_user): payment is the object in memory
\* (pk, status), reviewer the user, t the reading of timezone.now()
ApprovePaymentBody(P, C, A, obj, reviewer, t) ==
    IF ~ReviewGuard(obj.status) THEN [payments |-> P, charges |-> C]
    ELSE LET P1 == [P EXCEPT ![obj.pk].status = APPROVED,
                             ![obj.pk].reviewed_by = reviewer,
                             ![obj.pk].reviewed_at = t]
             touched == {a.charge : a \in {x \in A : x.payment = obj.pk}}
             \* recompute_charge_status of each allocation's charge; the
             \* charges are distinct rows, so the order does not matter
             C1 == [c \in 1..Len(C) |->
                      IF c \in touched THEN RecomputeChargeStatus(P1, C, A, c)[c]
                      ELSE C[c]]
         IN  [payments |-> P1, charges |-> C1]

\* payment.review_notes = notes or payment.review_notes
NotesOr(notes, old) == IF notes # "" THEN notes ELSE old

\* mutant: the rejection also clears the amount of the payment
RejectPaymentBodyClearsAmount(P, obj, reviewer, notes, t) ==
    IF ~ReviewGuard(obj.status) THEN P
    ELSE [P EXCEPT ![obj.pk].status = REJECTED,
                   ![obj.pk].reviewed_by = reviewer,
                   ![obj.pk].reviewed_at = t,
                   ![obj.pk].review_notes = NotesOr(notes, obj.review_notes),
                   ![obj.pk].amount = 0]

\* reject_payment(payment, reviewer_user, notes)
RejectPaymentBody(P, obj, reviewer, notes, t) ==
    IF ~ReviewGuard(obj.status) THEN P
    ELSE [P EXCEPT ![obj.pk].status = REJECTED,
                   ![obj.pk].reviewed_by = reviewer,
                   ![obj.pk].reviewed_at = t,
                   ![obj.pk].review_notes = NotesOr(notes, obj.review_notes)]

----------------------------------------------------------------------------
(* Owners (core.Owner) and visit passes (visits/models.py) *)

OwnerPks == {"O1"}

\* Owner.residential as the owners were registered
InitOwners == [o \in OwnerPks |-> "R1"]

MaxGuards == 2

\* the guards of the community of the pass
Guards == 1..MaxGuards

\* no VisitPass row
NoPass == [one_time_use |-> FALSE, arrival_at |-> 0, valid_until |-> 0,
           first_in_at |-> NoTime, first_out_at |-> NoTime, revoked_at |-> NoTime]

\* no scan request in flight
NoScan == [pc |-> "idle"]

----------------------------------------------------------------------------
(* Inputs of the operations *)

FeeUniverse ==
    {[residential |-> "R1", effective_from |-> <<2024, 1, 1>>, amount |-> 100],
     [residential |-> "R1", effective_from |-> <<2024, 2, 15>>, amount |-> 120]}

GenDates == {<<2023, 12, 1>>, <<2024, 3, 1>>}

PaymentAmounts == {250}

DirectNotes == {""}

ViewNotes == "Rechazado desde Aprobaciones"

NoHandle == [pk |-> 0, status |-> "", review_notes |-> ""]

NoTx == [pc |-> "idle"]

NoQuery == [residential |-> "", period |-> <<0, 0, 0>>, result |-> NoFee]

----------------------------------------------------------------------------
(* The ledger as a state machine: every operation runs to completion *)

Init ==
    /\ feeSchedules = {}
    /\ charges = <<>>
    /\ payments = <<>>
    /\ allocations = {}
    /\ now = 1
    /\ handles = [s \in Sessions |-> NoHandle]
    /\ last = Outcome("init", 0, 0, "")
    /\ feeQuery = NoQuery
    /\ tx = [s \in Sessions |-> NoTx]
    /\ owners = InitOwners
    /\ visitPass = NoPass
    /\ visitScans = <<>>
    /\ guards = [g \in Guards |-> NoScan]

\* FeeScheduleAdmin: an administrator adds a schedule
AddFeeSchedule(f) ==
    /\ Cardinality(feeSchedules) < MaxSchedules
    /\ f \notin feeSchedules
    /\ feeSchedules' = feeSchedules \cup {f}
    /\ last' = Outcome("other", 0, 0, "")
    /\ UNCHANGED <<charges, payments, allocations, now, handles, feeQuery, owners, visitVars, tx>>

\* PaymentSubmissionAdmin.save_model on a new payment: the unit must have
\* an owner; the row is SUBMITTED and takes the residential of the unit
SubmitPayment(u, amount) ==
    /\ Len(payments) < MaxPayments
    /\ UnitOwner(u) # NoOwner
    /\ payments' = Append(payments,
           [residential |-> UnitResidential(u), unit |-> u, owner |-> UnitOwner(u),
            amount |-> amount, status |-> SUBMITTED, reviewed_by |-> NoUser, reviewed_at |-> NoTime,
            review_notes |-> "", submitted_at |-> Len(payments) + 1])
    /\ last' = Outcome("other", 0, 0, "")
    /\ UNCHANGED <<feeSchedules, charges, allocations, now, handles, feeQuery, owners, visitVars, tx>>

\* what a review call leaves behind for its caller
ReviewOutcome(obj) ==
    Outcome("review", 0, 0, IF ReviewGuard(obj.status) THEN "" ELSE "returned early")

\* approve_payment(payment, reviewer_user) called by user s on the object obj
ApproveCall(s, obj) ==
    /\ LET r == ApprovePaymentBody(payments, charges, allocations, obj, s, now)
       IN  /\ payments' = r.payments
           /\ charges' = r.charges
    /\ now' = IF ReviewGuard(obj.status) THEN now + 1 ELSE now
    /\ last' = ReviewOutcome(obj)
    /\ UNCHANGED <<feeSchedules, allocations, feeQuery, owners, visitVars, tx>>

\* reject_payment(payment, reviewer_user, notes) called by user s on obj
RejectCall(s, obj, notes) ==
    /\ payments' = RejectPaymentBody(payments, obj, s, notes, now)
    /\ now' = IF ReviewGuard(obj.status) THEN now + 1 ELSE now
    /\ last' = ReviewOutcome(obj)
    /\ UNCHANGED <<feeSchedules, charges, allocations, feeQuery, owners, visitVars, tx>>

\* a caller reads payment p and calls approve_payment on it at once
ApprovePayment(s, p) ==
    /\ p \in 1..Len(payments)
    /\ ApproveCall(s, ReadPayment(payments, p))
    /\ UNCHANGED handles

\* a caller reads payment p and calls reject_payment on it at once
RejectPayment(s, p, notes) ==
    /\ p \in 1..Len(payments)
    /\ RejectCall(s, ReadPayment(payments, p), notes)
    /\ UNCHANGED handles

\* PaymentSubmissionApprovalAdmin.approve_view, requested by staff user s
ApproveView(s, p) ==
    /\ p \in 1..Len(payments)
    /\ IF payments[p].status # SUBMITTED
       THEN /\ last' = Outcome("approve_view", 0, 0, "ya fue procesado")
            /\ UNCHANGED <<payments, charges, now>>
       ELSE IF ~CallBinds(ApproveViewCallArgs, ApprovePaymentParams)
       THEN /\ last' = Outcome("approve_view", 0, 0, "TypeError")
            /\ UNCHANGED <<payments, charges, now>>
       ELSE LET obj == ReadPayment(payments, p)
                r == ApprovePaymentBody(payments, charges, allocations, obj, s, now)
            IN  /\ payments' = r.payments
                /\ charges' = r.charges
                /\ now' = now + 1
                /\ last' = Outcome("approve_view", 0, 0, "")
    /\ UNCHANGED <<feeSchedules, allocations, handles, feeQuery, owners, visitVars, tx>>

\* PaymentSubmissionApprovalAdmin.reject_view, requested by staff user s, up
\* to its call of reject_payment: get_object_or_404 and the status check.
\* Other requests can run between this read and the call.
RejectViewRead(s, p) ==
    /\ p \in 1..Len(payments)
    /\ handles[s] = NoHandle
    /\ IF payments[p].status # SUBMITTED
       THEN /\ last' = Outcome("reject_view", 0, 0, "ya fue procesado")
            /\ UNCHANGED handles
       ELSE /\ last' = Outcome("other", 0, 0, "")
            /\ handles' = [handles EXCEPT ![s] = ReadPayment(payments, p)]
    /\ UNCHANGED <<feeSchedules, charges, payments, allocations, now, feeQuery, owners, visitVars, tx>>

\* reject_view from its call on: reject_payment(payment, request.user,
\* notes="Rechazado desde Aprobaciones") on the object read before
RejectViewCall(s) ==
    /\ handles[s] # NoHandle
    /\ payments' = RejectPaymentBody(payments, handles[s], s, ViewNotes, now)
    /\ now' = now + 1
    /\ handles' = [handles EXCEPT ![s] = NoHandle]
    /\ last' = Outcome("reject_view", 0, 0, "")
    /\ UNCHANGED <<feeSchedules, charges, allocations, feeQuery, owners, visitVars, tx>>

\* MonthlyChargeAdmin.generate_view for the staff of residential res
Generate(res, start, end) ==
    /\ DateLE(start, end)
    /\ UnitsOf(res) # <<>>
    /\ LET g == GenerateCharges(feeSchedules, payments, charges, allocations,
                                res, start, end)
       IN  /\ charges' = g.charges
           /\ allocations' = g.allocations
           /\ last' = [op |-> "generate", arg |-> <<res, start, end>>, ret |-> g.created,
                       skipped |-> g.skipped, missing |-> g.missing,
                       note |-> IF g.raised THEN "IntegrityError" ELSE ""]
    /\ UNCHANGED <<feeSchedules, payments, now, handles, feeQuery, owners, visitVars, tx>>

\* apply_available_credit_to_charge(charge) on a charge object just read
ApplyCredit(c) ==
    /\ c \in 1..Len(charges)
    /\ LET r == ApplyAvailableCreditToCharge(payments, charges, allocations, c,
                                             charges[c].status)
       IN  /\ charges' = r.charges
           /\ allocations' = r.allocations
           /\ last' = Outcome("apply", c, r.ret, IF r.raised THEN "IntegrityError" ELSE "")
    /\ UNCHANGED <<feeSchedules, payments, now, handles, feeQuery, owners, visitVars, tx>>

Next ==
    \/ \E f \in FeeUniverse : AddFeeSchedule(f)
    \/ \E u \in UnitPks, amount \in PaymentAmounts : SubmitPayment(u, amount)
    \/ \E s \in Sessions, p \in 1..MaxPayments : ApprovePayment(s, p)
    \/ \E s \in Sessions, p \in 1..MaxPayments, notes \in DirectNotes : RejectPayment(s, p, notes)
    \/ \E s \in Sessions, p \in 1..MaxPayments : ApproveView(s, p)
    \/ \E s \in Sessions, p \in 1..MaxPayments : RejectViewRead(s, p)
    \/ \E s \in Sessions : RejectViewCall(s)
    \/ \E start \in GenDates, end \in GenDates : Generate("R1", start, end)
    \/ \E c \in 1..Len(charges) : ApplyCredit(c)

Spec == Init /\ [][Next]_vars

----------------------------------------------------------------------------
(* Properties of the ledger *)

PaymentPks == 1..Len(payments)
ChargePks == 1..Len(charges)

ApprovedPaymentsOf(u) ==
    {p \in PaymentPks : payments[p].unit = u /\ payments[p].status = APPROVED}

\* C1: credit conservation.  No payment has more allocated than its amount,
\* and for every unit the amounts applied from APPROVED payments (counted by
\* the unit of the payment, and by the unit of the charge as the balance
\* query counts them) never exceed the sum of the unit's APPROVED payments.
C1_CreditConservation ==
    /\ \A p \in PaymentPks :
           SumApplied({a \in allocations : a.payment = p}) <= payments[p].amount
    /\ \A u \in UnitPks :
           /\ SumApplied({a \in allocations : a.payment \in ApprovedPaymentsOf(u)})
                  <= SumAmount(payments, ApprovedPaymentsOf(u))
           /\ SumApplied({a \in allocations :
                             /\ charges[a.charge].unit = u
                             /\ payments[a.payment].status = APPROVED})
                  <= SumAmount(payments, ApprovedPaymentsOf(u))

\* an APPROVED payment spent to the last unit over several charges
C1_Witness ==
    \E p \in PaymentPks :
        /\ payments[p].status = APPROVED
        /\ SumApplied({a \in allocations : a.payment = p}) = payments[p].amount
        /\ Cardinality({a \in allocations : a.payment = p}) >= 2

----------------------------------------------------------------------------
\* what a payment has left, and what a charge still owes, in the current state
Remaining(p) == payments[p].amount - SumApplied({a \in allocations : a.payment = p})

Owed(c) ==
    FloorZero(charges[c].amount
              - SumApplied({a \in allocations : a.charge = c
                               /\ payments[a.payment].status = APPROVED}))

\* the unit's APPROVED payments with something left
Credit(u) ==
    {p \in PaymentPks : payments[p].unit = u /\ payments[p].status = APPROVED
                        /\ Remaining(p) > 0}

ReviewedEarlier(p, q) ==
    \/ payments[p].reviewed_at < payments[q].reviewed_at
    \/ /\ payments[p].reviewed_at = payments[q].reviewed_at
       /\ payments[p].submitted_at < payments[q].submitted_at

RECURSIVE SumRemaining(_)
SumRemaining(S) ==
    IF S = {} THEN 0
    ELSE LET p == CHOOSE x \in S : TRUE IN Remaining(p) + SumRemaining(S \ {p})

Min2(a, b) == IF a <= b THEN a ELSE b

\* what FIFO consumption gives payment p when charge c is served
FifoShare(c, p) ==
    LET earlier == {q \in Credit(charges[c].unit) : ReviewedEarlier(q, p)}
    IN  Min2(Remaining(p), FloorZero(Owed(c) - SumRemaining(earlier)))

\* C2: FIFO consumption.  A call of apply_available_credit_to_charge on an
\* open charge creates allocations on that charge only, from the unit's
\* APPROVED payments with remaining credit only, at most one per payment,
\* and each payment gets min(its remaining, what the charge still owes after
\* every earlier-reviewed payment gave all it had): a later payment is used
\* only once the earlier ones are exhausted, none after the balance is zero.
C2_FifoConsumption ==
    [][\A c \in ChargePks :
          (last'.op = "apply" /\ last'.arg = c /\ charges[c].status \in {PENDING, PARTIAL})
          => LET new == allocations' \ allocations
             IN  /\ allocations \subseteq allocations'
                 /\ \A a \in new : a.charge = c /\ a.payment \in Credit(charges[c].unit)
                 /\ \A p \in Credit(charges[c].unit) :
                        /\ Cardinality({a \in new : a.payment = p}) <= 1
                        /\ SumApplied({a \in new : a.payment = p}) = FifoShare(c, p)]_vars

\* a call served one charge from two payments: the earlier-reviewed one is
\* exhausted, the later one gave the rest
C2_Witness ==
    /\ last.op = "apply"
    /\ last.ret > 0
    /\ \E p, q \in PaymentPks :
          /\ ReviewedEarlier(p, q)
          /\ Remaining(p) = 0
          /\ \E a, b \in allocations :
                /\ a.charge = last.arg /\ a.payment = p
                /\ b.charge = last.arg /\ b.payment = q
                /\ a.amount_applied + b.amount_applied = last.ret

\* C3: a call of apply_available_credit_to_charge on a charge whose status
\* is PAID returns zero, creates no allocation and leaves every charge,
\* this one included, as it was.
C3_PaidStaysPaid ==
    [][\A c \in ChargePks :
          (last'.op = "apply" /\ last'.arg = c /\ charges[c].status = PAID)
          => /\ last'.ret = 0
             /\ allocations' = allocations
             /\ charges' = charges]_vars

\* the call was made on a PAID charge while the unit had credit left
C3_Witness ==
    /\ last.op = "apply"
    /\ last.ret = 0
    /\ charges[last.arg].status = PAID
    /\ Credit(charges[last.arg].unit) # {}

----------------------------------------------------------------------------
\* the open charges of a unit whose period is before that of c
OpenBefore(c) ==
    {d \in ChargePks : /\ charges[d].unit = charges[c].unit
                       /\ charges[d].status \in {PENDING, PARTIAL}
                       /\ DateLT(charges[d].period, charges[c].period)}

RECURSIVE SumOwed(_)
SumOwed(S) ==
    IF S = {} THEN 0
    ELSE LET c == CHOOSE x \in S : TRUE IN Owed(c) + SumOwed(S \ {c})

\* C4: approve_view (approve_payment with auto_allocate=True) on a SUBMITTED
\* payment sets it APPROVED and spreads its amount over the open charges of
\* the unit, oldest period first, each filled before the next.
C4_AutoAllocate ==
    [][\A s \in Sessions, p \in PaymentPks :
          (ApproveView(s, p) /\ payments[p].status = SUBMITTED)
          => /\ payments'[p].status = APPROVED
             /\ \A c \in ChargePks :
                   (charges[c].unit = payments[p].unit
                    /\ charges[c].status \in {PENDING, PARTIAL})
                   => SumApplied({a \in allocations' \ allocations :
                                     a.payment = p /\ a.charge = c})
                      = Min2(Owed(c),
                             FloorZero(payments[p].amount - SumOwed(OpenBefore(c))))]_vars

----------------------------------------------------------------------------
Jan2024 == <<2024, 1, 1>>
Feb2024 == <<2024, 2, 1>>
Mar2024 == <<2024, 3, 1>>

\* the end-to-end scenario for unit u: three charges of 100 for January to
\* March 2024, one APPROVED payment of 250 allocated 100, 100, 50 to them
Scenario(u) ==
    LET cs == {c \in ChargePks : charges[c].unit = u /\ charges[c].status # VOID}
    IN  /\ Cardinality(cs) = 3
        /\ {charges[c].period : c \in cs} = {Jan2024, Feb2024, Mar2024}
        /\ \A c \in cs : charges[c].amount = 100
        /\ \E p \in PaymentPks :
              /\ ApprovedPaymentsOf(u) = {p}
              /\ payments[p].amount = 250
              /\ \A c \in cs :
                    {a.amount_applied : a \in {x \in allocations :
                                                 x.payment = p /\ x.charge = c}}
                    = {IF charges[c].period = Mar2024 THEN 50 ELSE 100}

\* C5 as stated: in the scenario the balance query reports balance_due 150
\* and credit_available 0.
C5_ScenarioBalanceAsStated ==
    \A u \in UnitPks :
        Scenario(u) =>
            /\ GetUnitBalance(payments, charges, allocations, u).balance_due = 150
            /\ GetUnitBalance(payments, charges, allocations, u).credit_available = 0

\* C5 amended: in the scenario the balance query reports balance_due 50
\* (300 charged less 250 applied) and credit_available 0.
C5_ScenarioBalance ==
    \A u \in UnitPks :
        Scenario(u) =>
            /\ GetUnitBalance(payments, charges, allocations, u).balance_due = 50
            /\ GetUnitBalance(payments, charges, allocations, u).credit_available = 0
            /\ GetUnitBalance(payments, charges, allocations, u).total_charged = 300
            /\ GetUnitBalance(payments, charges, allocations, u).total_applied = 250

C5_Witness == Scenario("U1")

----------------------------------------------------------------------------
\* the months a range of the generator covers
CalendarMonths == {<<2023, 12, 1>>, Jan2024, Feb2024, Mar2024}

MonthsOfRange(start, end) == {m \in CalendarMonths : DateLE(start, m) /\ DateLE(m, end)}

HasFee(res, m) ==
    \E f \in feeSchedules : f.residential = res /\ DateLE(f.effective_from, m)

UnitsIn(res) == {u \in UnitPks : UnitResidential(u) = res}

\* the (unit, month) pairs a run of the generator is to cover
Due(res, start, end) ==
    {<<u, m>> : u \in UnitsIn(res),
                m \in {x \in MonthsOfRange(start, end) : HasFee(res, x)}}

Charged(um) == \E c \in ChargePks : charges[c].unit = um[1] /\ charges[c].period = um[2]

\* C6: idempotent generation.  A run creates exactly one charge for every
\* (unit, month with a fee) pair of its range that has none, and counts the
\* others as existing: units x months-with-fee on an empty ledger, zero when
\* the same range was generated by the operation before; it raises nothing,
\* and no two charges ever share (unit, period).
C6_IdempotentGeneration ==
    [][last'.op = "generate"
       => LET due == Due(last'.arg[1], last'.arg[2], last'.arg[3])
              absent == {um \in due : ~Charged(um)}
          IN  /\ last'.note = ""
              /\ last'.ret = Cardinality(absent)
              /\ last'.skipped = Cardinality(due) - Cardinality(absent)
              /\ Len(charges') = Len(charges) + last'.ret
              /\ charges = <<>> =>
                     last'.ret = Cardinality(UnitsIn(last'.arg[1]))
                                 * Cardinality({m \in MonthsOfRange(last'.arg[2], last'.arg[3]) :
                                                   HasFee(last'.arg[1], m)})
              /\ (last.op = "generate" /\ last.arg = last'.arg) => last'.ret = 0
              /\ \A c, d \in 1..Len(charges') :
                     (charges'[c].unit = charges'[d].unit
                      /\ charges'[c].period = charges'[d].period) => c = d]_vars

\* the second run over December 2023 to March 2024: nothing created, the
\* charges of both units for the three months with a fee counted as existing
C6_Witness ==
    /\ last.op = "generate"
    /\ last.ret = 0
    /\ last.skipped = 6
    /\ last.missing = <<<<2023, 12, 1>>>>
    /\ Len(charges) = 6

----------------------------------------------------------------------------
LedgerUnchanged ==
    /\ payments' = payments
    /\ allocations' = allocations
    /\ charges' = charges

\* C7: approve_payment and reject_payment on a payment that is not SUBMITTED
\* change nothing: the payment row (status, reviewer, review time, notes),
\* the allocations and the charges stay as they were and the call returns
\* without an error; the same goes for the two review views.
C7_ReviewOfProcessedIsNoOp ==
    [][\A s \in Sessions, p \in PaymentPks :
          payments[p].status # SUBMITTED
          => /\ (ApprovePayment(s, p) \/ \E n \in DirectNotes : RejectPayment(s, p, n))
                    => LedgerUnchanged /\ last'.note = "returned early"
             /\ (ApproveView(s, p) \/ RejectViewRead(s, p))
                    => LedgerUnchanged /\ last'.note = "ya fue procesado"]_vars

\* reject_payment has just returned early and a REJECTED payment is there
C7_Witness ==
    /\ last.op = "review"
    /\ last.note = "returned early"
    /\ \E p \in PaymentPks : payments[p].status = REJECTED
    /\ \A p \in PaymentPks : payments[p].status # SUBMITTED

\* C9: payment review is terminal.  The stored status of a payment changes
\* only from SUBMITTED.
C9_ReviewTerminal ==
    [][\A p \in PaymentPks :
          payments'[p].status # payments[p].status => payments[p].status = SUBMITTED]_vars

----------------------------------------------------------------------------
(* Fee resolution on its own: any store of schedules, any query *)

FeeQueryUniverse ==
    {[residential |-> "R1", effective_from |-> <<2024, 1, 1>>, amount |-> 100],
     [residential |-> "R1", effective_from |-> <<2024, 6, 1>>, amount |-> 120],
     [residential |-> "R1", effective_from |-> <<2024, 6, 1>>, amount |-> 130],
     [residential |-> "R2", effective_from |-> <<2023, 12, 1>>, amount |-> 90],
     [residential |-> "R2", effective_from |-> <<2024, 5, 1>>, amount |-> 95]}

FeePeriods == {<<2023, 12, 1>>, <<2024, 1, 1>>, <<2024, 5, 1>>, <<2024, 6, 1>>}

InitFee ==
    /\ feeSchedules \in SUBSET FeeQueryUniverse
    /\ charges = <<>>
    /\ payments = <<>>
    /\ allocations = {}
    /\ now = 1
    /\ handles = [s \in Sessions |-> NoHandle]
    /\ last = Outcome("init", 0, 0, "")
    /\ feeQuery = NoQuery
    /\ tx = [s \in Sessions |-> NoTx]
    /\ owners = InitOwners
    /\ visitPass = NoPass
    /\ visitScans = <<>>
    /\ guards = [g \in Guards |-> NoScan]

\* _fee_for_month(residential, period)
FeeQuery(residential, period) ==
    /\ \E r \in FeeForMonthOutcomes(feeSchedules, residential, period) :
           feeQuery' = [residential |-> residential, period |-> period, result |-> r]
    /\ UNCHANGED <<feeSchedules, charges, payments, allocations, now, handles, last, tx,
                 owners, visitVars>>

NextFee == \E residential \in Residentials, period \in FeePeriods : FeeQuery(residential, period)

SpecFee == InitFee /\ [][NextFee]_vars

\* a date as one number, for comparing
DateKey(d) == d[1] * 10000 + d[2] * 100 + d[3]

\* the schedules of the queried community in force at the queried period
InForce ==
    {f \in feeSchedules : /\ f.residential = feeQuery.residential
                          /\ DateKey(f.effective_from) <= DateKey(feeQuery.period)}

\* C8: fee resolution.  The query returns the amount of a schedule of the
\* queried community with the greatest effective_from not after the period
\* (a schedule effective on the period itself counts), whatever schedules
\* other communities have, and returns none when the community has no
\* schedule in force; with the schedules of 2024-01-01 (100) and 2024-06-01
\* (120) alone, May 2024 gives 100, June 2024 gives 120, December 2023 none.
C8_FeeResolution ==
    feeQuery # NoQuery
    => /\ InForce = {} => feeQuery.result = NoFee
       /\ InForce # {} =>
              /\ feeQuery.result.found
              /\ \E f \in InForce :
                     /\ f.amount = feeQuery.result.amount
                     /\ \A g \in InForce : DateKey(g.effective_from) <= DateKey(f.effective_from)
       /\ ({f \in feeSchedules : f.residential = "R1"}
               = {[residential |-> "R1", effective_from |-> <<2024, 1, 1>>, amount |-> 100],
                  [residential |-> "R1", effective_from |-> <<2024, 6, 1>>, amount |-> 120]}
           /\ feeQuery.residential = "R1")
          => /\ feeQuery.period = <<2024, 5, 1>> => feeQuery.result = [found |-> TRUE, amount |-> 100]
             /\ feeQuery.period = <<2024, 6, 1>> => feeQuery.result = [found |-> TRUE, amount |-> 120]
             /\ feeQuery.period = <<2023, 12, 1>> => feeQuery.result = NoFee

\* June 2024 is asked of the community with the two schedules, while the
\* other community has schedules of its own: the schedule of 1 June applies
C8_Witness ==
    /\ {f \in feeSchedules : f.residential = "R1"}
           = {[residential |-> "R1", effective_from |-> <<2024, 1, 1>>, amount |-> 100],
              [residential |-> "R1", effective_from |-> <<2024, 6, 1>>, amount |-> 120]}
    /\ \E f \in feeSchedules : f.residential = "R2"
    /\ feeQuery.residential = "R1"
    /\ feeQuery.period = <<2024, 6, 1>>
    /\ feeQuery.result = [found |-> TRUE, amount |-> 120]

----------------------------------------------------------------------------
(* Credit application statement by statement, inside its transaction.  The
   store holds what is committed; what the open transaction created is in
   tx[s].writes and its status update in tx[s].status, seen by nobody else.
   Row locks are the guards of the other operations. *)

Open(s) == tx[s].pc # "idle"

Quiet == \A s \in Sessions : ~Open(s)

\* the payment rows an open transaction holds locked (select_for_update)
LockedPayments ==
    UNION {{tx[s].plist[k] : k \in 1..Len(tx[s].plist)} : s \in {x \in Sessions : Open(x)}}

\* the charge rows an open transaction holds locked
\* (MonthlyCharge.objects.select_for_update().get)
LockedCharges == {tx[s].charge : s \in {x \in Sessions : Open(x)}}

\* the annotation `remaining`, row by row of the evaluated query
RemainingOf(plist) ==
    [k \in 1..Len(plist) |-> PaymentRemaining(payments, allocations, plist[k])]

\* what the block holds when it is left from inside transaction s
TxOut(s, status, ret, raised) ==
    [charges |-> [charges EXCEPT ![tx[s].charge].status = status],
     allocations |-> allocations \cup tx[s].writes,
     ret |-> ret, raised |-> raised]

\* the block is left: commit, or rollback when an exception leaves it; the
\* outcome shows, as skipped, how many allocations the call had created
TxExit(s, out, err) ==
    LET r == TransactionAtomic(charges, allocations, out)
    IN  /\ charges' = r.charges
        /\ allocations' = r.allocations
        /\ tx' = [tx EXCEPT ![s] = NoTx]
        /\ last' = [Outcome("apply", tx[s].charge, r.ret, err)
                      EXCEPT !.skipped = Cardinality(tx[s].writes)]

\* apply_available_credit_to_charge(charge) up to the evaluation of the
\* payments query: the early return on the status, the lock on the charge
\* (waited for while another transaction holds it), the early return on the
\* balance, the locked and ordered payments (waited for likewise)
TxBegin(s, c) ==
    /\ ~Open(s)
    /\ c \in 1..Len(charges)
    /\ IF SatisfiedOrFrozen(charges[c].status)
       THEN /\ last' = Outcome("apply", c, 0, "")
            /\ UNCHANGED tx
       ELSE /\ c \notin LockedCharges
            /\ IF ChargeBalance(payments, charges, allocations, c) <= 0
               THEN /\ last' = Outcome("apply", c, 0, "")
                    /\ UNCHANGED tx
               ELSE LET credit == CreditPayments(payments, charges, allocations, c)
                        plist == OrderPayments(payments, credit)
                    IN  /\ credit \cap LockedPayments = {}
                        /\ tx' = [tx EXCEPT ![s] =
                                    [pc |-> "loop", charge |-> c, plist |-> plist,
                                     remaining |-> RemainingOf(plist), i |-> 1,
                                     balance |-> ChargeBalance(payments, charges, allocations, c),
                                     applied |-> 0, writes |-> {},
                                     status |-> charges[c].status,
                                     status0 |-> charges[c].status,
                                     allocs0 |-> {a \in allocations : a.charge = c}]]
                        /\ last' = Outcome("other", 0, 0, "")
    /\ UNCHANGED <<feeSchedules, charges, payments, allocations, now, handles, feeQuery, owners, visitVars>>

\* one pass of the loop: PaymentAllocation.objects.create, the totals
TxStep(s) ==
    /\ Open(s)
    /\ tx[s].pc = "loop"
    /\ tx[s].i <= Len(tx[s].plist)
    /\ tx[s].balance > 0
    /\ LET p == tx[s].plist[tx[s].i]
           to_apply == ToApply(tx[s].remaining[tx[s].i], tx[s].balance)
       IN  IF ~AllocationUnique(allocations \cup tx[s].writes, p, tx[s].charge)
           THEN TxExit(s, TxOut(s, tx[s].status, 0, TRUE), "IntegrityError")
           ELSE /\ tx' = [tx EXCEPT ![s].writes = @ \cup
                                        {[payment |-> p, charge |-> tx[s].charge,
                                          amount_applied |-> to_apply]},
                                    ![s].i = @ + 1,
                                    ![s].balance = @ - to_apply,
                                    ![s].applied = @ + to_apply]
                /\ last' = Outcome("other", 0, 0, "")
                /\ UNCHANGED <<charges, allocations>>
    /\ UNCHANGED <<feeSchedules, payments, now, handles, feeQuery, owners, visitVars>>

\* the loop is over: recompute_charge_status(charge) and its save
TxRecompute(s) ==
    /\ Open(s)
    /\ tx[s].pc = "loop"
    /\ tx[s].i > Len(tx[s].plist) \/ tx[s].balance <= 0
    /\ tx' = [tx EXCEPT ![s].pc = "saved",
                        ![s].status =
                            RecomputeChargeStatus(payments, charges,
                                allocations \cup tx[s].writes, tx[s].charge)[tx[s].charge].status]
    /\ last' = Outcome("other", 0, 0, "")
    /\ UNCHANGED <<feeSchedules, charges, payments, allocations, now, handles, feeQuery, owners, visitVars>>

\* return applied_total: the block is left normally
TxCommit(s) ==
    /\ Open(s)
    /\ tx[s].pc = "saved"
    /\ TxExit(s, TxOut(s, tx[s].status, tx[s].applied, FALSE), "")
    /\ UNCHANGED <<feeSchedules, payments, now, handles, feeQuery, owners, visitVars>>

\* the database raises inside the block (lock wait timeout, deadlock, lost
\* connection), at any statement after the payments were read
TxFail(s) ==
    /\ Open(s)
    /\ TxExit(s, TxOut(s, tx[s].status, 0, TRUE), "OperationalError")
    /\ UNCHANGED <<feeSchedules, payments, now, handles, feeQuery, owners, visitVars>>

NextTx ==
    \/ \E f \in FeeUniverse : AddFeeSchedule(f)
    \/ \E u \in UnitPks, amount \in PaymentAmounts : SubmitPayment(u, amount)
    \/ \E s \in Sessions, p \in 1..MaxPayments : p \notin LockedPayments /\ ApprovePayment(s, p)
    \/ \E s \in Sessions, p \in 1..MaxPayments, notes \in DirectNotes :
           p \notin LockedPayments /\ RejectPayment(s, p, notes)
    \/ \E start \in GenDates, end \in GenDates : Quiet /\ Generate("R1", start, end)
    \/ \E s \in Sessions, c \in 1..Len(charges) : TxBegin(s, c)
    \/ \E s \in Sessions : TxStep(s)
    \/ \E s \in Sessions : TxRecompute(s)
    \/ \E s \in Sessions : TxCommit(s)
    \/ \E s \in Sessions : TxFail(s)

SpecTx == Init /\ [][NextTx]_vars

\* C10: credit application is atomic.  When the call fails after it began
\* to create allocations, the store is as it was: the allocations of the
\* charge are those from before the call, none of the allocations of the
\* call exists, and the status of the charge is the one from before the call.
C10_ApplyAtomic ==
    [][\A s \in Sessions :
          (Open(s) /\ last'.op = "apply" /\ last'.note # "")
          => /\ allocations' = allocations
             /\ charges' = charges
             /\ tx[s].writes \cap allocations' = {}
             /\ {a \in allocations' : a.charge = tx[s].charge} = tx[s].allocs0
             /\ charges'[tx[s].charge].status = tx[s].status0]_vars

\* a call has just failed after it had created an allocation; the charge is
\* PENDING with no allocation and the credit is still with the payment
C10_Witness ==
    /\ last.op = "apply"
    /\ last.note = "OperationalError"
    /\ last.skipped >= 1
    /\ charges[last.arg].status = PENDING
    /\ {a \in allocations : a.charge = last.arg} = {}
    /\ \E p \in PaymentPks :
           /\ payments[p].status = APPROVED
           /\ payments[p].unit = charges[last.arg].unit
           /\ PaymentRemaining(payments, allocations, p) > 0

----------------------------------------------------------------------------
(* Concurrent credit application with its row locks taken one by one.  Each
   caller k runs apply_available_credit_to_charge in its own transaction,
   kept in tx[k]: the charge row is locked first (select_for_update().get),
   then the payment rows the query reads (select_for_update on the
   queryset), a row at a time in the order the store scans them; a locked
   row makes the other caller wait.  Locks are held to the end of the
   transaction. *)

MaxCallers == 2

Callers == 1..MaxCallers

Running(k) == tx[k].pc # "idle"

NoneRunning == \A k \in Callers : ~Running(k)

\* the charge row a caller holds locked, if any
HoldsCharge(k, c) == Running(k) /\ tx[k].pc # "lockCharge" /\ tx[k].charge = c

\* the payment rows a caller holds locked
HeldPayments(k) == IF Running(k) THEN tx[k].held ELSE {}

\* mutant: the charge row is read without its lock
ChargeLockFreeUnlocked(k, c) == TRUE

\* select_for_update().get(pk=charge.pk) can proceed: no other transaction
\* holds the row
ChargeLockFree(k, c) == \A j \in Callers \ {k} : ~HoldsCharge(j, c)

\* mutant: the payment rows are read without their lock
PaymentLockFreeUnlocked(k, p) == TRUE

\* the select_for_update of the payments query can take row p
PaymentLockFree(k, p) == \A j \in Callers \ {k} : p \notin HeldPayments(j)

Lowest(S) == CHOOSE x \in S : \A y \in S : x <= y

Highest(S) == CHOOSE x \in S : \A y \in S : x >= y

\* mutant: the scan order depends on the caller
NextRowByCaller(k, S) == IF k = 1 THEN Lowest(S) ELSE Highest(S)

\* the next row the locking read of the payments query reaches: every
\* caller runs the same query over the same index, so the same scan order
NextRow(k, S) == Lowest(S)

InitLock ==
    /\ feeSchedules = {}
    /\ charges = <<>>
    /\ payments = <<>>
    /\ allocations = {}
    /\ now = 1
    /\ handles = [s \in Sessions |-> NoHandle]
    /\ last = Outcome("init", 0, 0, "")
    /\ feeQuery = NoQuery
    /\ tx = [k \in Callers |-> NoTx]
    /\ owners = InitOwners
    /\ visitPass = NoPass
    /\ visitScans = <<>>
    /\ guards = [g \in Guards |-> NoScan]

\* the call begins: the status test on the object passed (just read)
LockBegin(k, c) ==
    /\ ~Running(k)
    /\ c \in 1..Len(charges)
    /\ IF SatisfiedOrFrozen(charges[c].status)
       THEN /\ last' = Outcome("apply", c, 0, "")
            /\ UNCHANGED tx
       ELSE /\ tx' = [tx EXCEPT ![k] =
                        [pc |-> "lockCharge", charge |-> c, held |-> {}, plist |-> <<>>,
                         remaining |-> <<>>, i |-> 1, balance |-> 0, applied |-> 0,
                         writes |-> {}, status |-> charges[c].status]]
            /\ last' = Outcome("other", 0, 0, "")
    /\ UNCHANGED <<feeSchedules, charges, payments, allocations, now, handles, feeQuery, owners, visitVars>>

\* charge = MonthlyCharge.objects.select_for_update().get(pk=charge.pk);
\* balance = charge.balance; if balance <= 0: return ZERO
LockCharge(k) ==
    /\ Running(k)
    /\ tx[k].pc = "lockCharge"
    /\ ChargeLockFree(k, tx[k].charge)
    /\ LET c == tx[k].charge
           balance == ChargeBalance(payments, charges, allocations, c)
       IN  IF balance <= 0
           THEN /\ tx' = [tx EXCEPT ![k] = NoTx]
                /\ last' = Outcome("apply", c, 0, "")
           ELSE /\ tx' = [tx EXCEPT ![k].pc = "lockPayments", ![k].balance = balance,
                                    ![k].status = charges[c].status]
                /\ last' = Outcome("other", 0, 0, "")
    /\ UNCHANGED <<feeSchedules, charges, payments, allocations, now, handles, feeQuery, owners, visitVars>>

\* the payment rows the query of caller k is to lock and has not yet
RowsToLock(k) ==
    CreditPayments(payments, charges, allocations, tx[k].charge) \ tx[k].held

\* the locking read of the payments query, a row at a time; with every row
\* held the query gives its rows, ordered, with `remaining` as it is now
LockPayments(k) ==
    /\ Running(k)
    /\ tx[k].pc = "lockPayments"
    /\ IF RowsToLock(k) # {}
       THEN LET p == NextRow(k, RowsToLock(k))
            IN  /\ PaymentLockFree(k, p)
                /\ tx' = [tx EXCEPT ![k].held = @ \cup {p}]
       ELSE LET plist == OrderPayments(payments,
                             CreditPayments(payments, charges, allocations, tx[k].charge))
            IN  tx' = [tx EXCEPT ![k].pc = "loop", ![k].plist = plist,
                                 ![k].remaining = RemainingOf(plist)]
    /\ last' = Outcome("other", 0, 0, "")
    /\ UNCHANGED <<feeSchedules, charges, payments, allocations, now, handles, feeQuery, owners, visitVars>>

\* one pass of the loop, or after it recompute_charge_status and the commit
\* that ends the transaction and releases its locks
LockLoop(k) ==
    /\ Running(k)
    /\ tx[k].pc = "loop"
    /\ IF tx[k].i <= Len(tx[k].plist) /\ tx[k].balance > 0
       THEN LET p == tx[k].plist[tx[k].i]
                to_apply == ToApply(tx[k].remaining[tx[k].i], tx[k].balance)
            IN  IF ~AllocationUnique(allocations \cup tx[k].writes, p, tx[k].charge)
                THEN /\ tx' = [tx EXCEPT ![k] = NoTx]
                     /\ last' = Outcome("apply", tx[k].charge, 0, "IntegrityError")
                     /\ UNCHANGED <<charges, allocations>>
                ELSE /\ tx' = [tx EXCEPT ![k].writes = @ \cup
                                             {[payment |-> p, charge |-> tx[k].charge,
                                               amount_applied |-> to_apply]},
                                         ![k].i = @ + 1,
                                         ![k].balance = @ - to_apply,
                                         ![k].applied = @ + to_apply]
                     /\ last' = Outcome("other", 0, 0, "")
                     /\ UNCHANGED <<charges, allocations>>
       ELSE LET A1 == allocations \cup tx[k].writes
            IN  /\ allocations' = A1
                /\ charges' = RecomputeChargeStatus(payments, charges, A1, tx[k].charge)
                /\ tx' = [tx EXCEPT ![k] = NoTx]
                /\ last' = Outcome("apply", tx[k].charge, tx[k].applied, "")
    /\ UNCHANGED <<feeSchedules, payments, now, handles, feeQuery, owners, visitVars>>

\* the database raises inside the block: rollback, locks released
LockAbort(k) ==
    /\ Running(k)
    /\ tx[k].pc # "lockCharge"
    /\ tx' = [tx EXCEPT ![k] = NoTx]
    /\ last' = Outcome("apply", tx[k].charge, 0, "OperationalError")
    /\ UNCHANGED <<feeSchedules, charges, payments, allocations, now, handles, feeQuery, owners, visitVars>>

\* the other operations run between the calls
NextLock ==
    \/ \E f \in FeeUniverse : NoneRunning /\ AddFeeSchedule(f)
    \/ \E u \in UnitPks, amount \in PaymentAmounts : NoneRunning /\ SubmitPayment(u, amount)
    \/ \E s \in Sessions, p \in 1..MaxPayments : NoneRunning /\ ApprovePayment(s, p)
    \/ \E start \in GenDates, end \in GenDates : NoneRunning /\ Generate("R1", start, end)
    \/ \E k \in Callers, c \in 1..Len(charges) : LockBegin(k, c)
    \/ \E k \in Callers : LockCharge(k)
    \/ \E k \in Callers : LockPayments(k)
    \/ \E k \in Callers : LockLoop(k)
    \/ \E k \in Callers : LockAbort(k)

SpecLock == InitLock /\ [][NextLock]_vars

----------------------------------------------------------------------------
\* everything written so far, committed or not
AllWrites == allocations \cup UNION {IF Running(k) THEN tx[k].writes ELSE {} : k \in Callers}

\* the caller has the charge row and has read its balance
PastChargeLock(k) == Running(k) /\ tx[k].pc \in {"lockPayments", "loop"}

\* C11: calls on the same charge serialize on the charge row lock.  No two
\* callers are past the lock of the same charge; the balance a caller works
\* with is the stored balance less what it applied itself (so it was read
\* after every earlier call on the charge had committed or aborted); the
\* APPROVED allocations of a charge, uncommitted ones included, never exceed
\* its amount, and no payment has two allocations on one charge.
C11_SameChargeSerialized ==
    /\ \A j, k \in Callers :
           (j # k /\ PastChargeLock(j) /\ PastChargeLock(k)) => tx[j].charge # tx[k].charge
    /\ \A k \in Callers :
           PastChargeLock(k) =>
               tx[k].balance
                   = ChargeBalance(payments, charges, allocations, tx[k].charge) - tx[k].applied
    /\ \A c \in ChargePks :
           /\ SumApplied({a \in AllWrites : a.charge = c /\ payments[a.payment].status = APPROVED})
                  <= charges[c].amount
           /\ \A a, b \in AllWrites :
                  (a.charge = c /\ b.charge = c /\ a.payment = b.payment) => a = b

\* one caller waits for the charge row while another holds it and has
\* created an allocation on it
C11_Witness ==
    \E j, k \in Callers :
        /\ j # k
        /\ Running(j) /\ tx[j].pc = "loop" /\ tx[j].writes # {}
        /\ Running(k) /\ tx[k].pc = "lockCharge" /\ tx[k].charge = tx[j].charge

\* C12: calls on different charges of a unit never over-allocate a payment.
\* A payment row is held by one caller at a time; the remaining amount a
\* caller works with is the stored one; the allocations of a payment,
\* uncommitted ones included, never exceed its amount.
C12_PaymentNotOverAllocated ==
    /\ \A j, k \in Callers : j # k => HeldPayments(j) \cap HeldPayments(k) = {}
    /\ \A k \in Callers :
           (Running(k) /\ tx[k].pc = "loop") =>
               \A n \in tx[k].i..Len(tx[k].plist) :
                   /\ tx[k].plist[n] \in tx[k].held
                   /\ tx[k].remaining[n]
                          = PaymentRemaining(payments, allocations, tx[k].plist[n])
    /\ \A p \in PaymentPks :
           SumApplied({a \in AllWrites : a.payment = p}) <= payments[p].amount

\* two calls on different charges of one unit: one holds a payment row and
\* has drawn on it, the other waits for that row
C12_Witness ==
    \E j, k \in Callers :
        /\ j # k
        /\ Running(j) /\ tx[j].pc = "loop" /\ tx[j].writes # {}
        /\ Running(k) /\ tx[k].pc = "lockPayments"
        /\ tx[k].charge # tx[j].charge
        /\ charges[tx[k].charge].unit = charges[tx[j].charge].unit
        /\ RowsToLock(k) # {}
        /\ NextRow(k, RowsToLock(k)) \in tx[j].held

\* the caller waits for a row lock another caller holds
Waiting(k) ==
    /\ Running(k)
    /\ \/ tx[k].pc = "lockCharge" /\ ~ChargeLockFree(k, tx[k].charge)
       \/ /\ tx[k].pc = "lockPayments"
          /\ RowsToLock(k) # {}
          /\ ~PaymentLockFree(k, NextRow(k, RowsToLock(k)))

----------------------------------------------------------------------------
(* The ledger as the admin site can leave it: MonthlyChargeAdmin and
   PaymentSubmissionAdmin edit status directly and PaymentAllocationInline
   adds allocations to any payment, so a charge can be VOID, or carry
   allocations of SUBMITTED and REJECTED payments, before the functions of
   the ledger run on it. *)

\* two charges of unit U1, any status
LedgerCharges ==
    {<<[residential |-> "R1", unit |-> "U1", period |-> <<2024, 1, 1>>,
        amount |-> 100, status |-> s1],
       [residential |-> "R1", unit |-> "U1", period |-> <<2024, 2, 1>>,
        amount |-> 100, status |-> s2]>> :
        s1 \in {PENDING, PARTIAL, PAID, VOID}, s2 \in {PENDING, PAID, VOID}}

LedgerPayment(rank, status) ==
    [residential |-> "R1", unit |-> "U1", owner |-> "O1", amount |-> 250, status |-> status,
     reviewed_by |-> IF status = SUBMITTED THEN NoUser ELSE 1,
     reviewed_at |-> IF status = SUBMITTED THEN NoTime ELSE rank,
     review_notes |-> "", submitted_at |-> rank]

\* two payments of unit U1, any status
LedgerPayments ==
    {<<LedgerPayment(1, s1), LedgerPayment(2, s2)>> :
        s1 \in {SUBMITTED, APPROVED, REJECTED}, s2 \in {SUBMITTED, APPROVED}}

AllocationRows ==
    {[payment |-> 1, charge |-> 1, amount_applied |-> 60],
     [payment |-> 1, charge |-> 2, amount_applied |-> 100],
     [payment |-> 2, charge |-> 1, amount_applied |-> 60]}

\* sets of allocations that respect unique_together (payment, charge)
LedgerAllocations ==
    {A \in SUBSET AllocationRows :
        \A a, b \in A : (a.payment = b.payment /\ a.charge = b.charge) => a = b}

InitLedger ==
    /\ feeSchedules = {[residential |-> "R1", effective_from |-> <<2024, 1, 1>>, amount |-> 100]}
    /\ charges \in LedgerCharges
    /\ payments \in LedgerPayments
    /\ allocations \in LedgerAllocations
    /\ now = 3
    /\ handles = [s \in Sessions |-> NoHandle]
    /\ last = Outcome("init", 0, 0, "")
    /\ feeQuery = NoQuery
    /\ tx = [s \in Sessions |-> NoTx]
    /\ owners = InitOwners
    /\ visitPass = NoPass
    /\ visitScans = <<>>
    /\ guards = [g \in Guards |-> NoScan]

\* recompute_charge_status(charge) on a charge object just read
RecomputeStatus(c) ==
    /\ c \in 1..Len(charges)
    /\ charges' = RecomputeChargeStatus(payments, charges, allocations, c)
    /\ last' = Outcome("recompute", c, 0, "")
    /\ UNCHANGED <<feeSchedules, payments, allocations, now, handles, feeQuery, owners, visitVars, tx>>

\* get_unit_balance(unit)
BalanceQuery(u) ==
    /\ last' = Outcome("balance", u, GetUnitBalance(payments, charges, allocations, u), "")
    /\ UNCHANGED <<feeSchedules, charges, payments, allocations, now, handles, feeQuery, owners, visitVars, tx>>

\* mutant: the oldest period comes first
PeriodFirstOldest(C, a, b) == DateLT(C[a].period, C[b].period)

\* .order_by("-period"): charge a comes before charge b
PeriodFirst(C, a, b) == DateLT(C[b].period, C[a].period)

RECURSIVE OrderByPeriod(_, _)
OrderByPeriod(C, S) ==
    IF S = {} THEN <<>>
    ELSE LET m == CHOOSE x \in S : \A y \in S : ~PeriodFirst(C, y, x)
         IN  <<m>> \o OrderByPeriod(C, S \ {m})

\* the slice [:limit_months]
Slice(seq, n) == SubSeq(seq, 1, Min2(n, Len(seq)))

\* the charges query of get_unit_statement: the pks, in the order of the rows
StatementCharges(C, u, limit) ==
    Slice(OrderByPeriod(C, {c \in 1..Len(C) : C[c].unit = u /\ C[c].status # VOID}), limit)

\* applied_map.get(c.id, ZERO): the allocations query is grouped by charge
\* over the charges of the slice and the APPROVED payments
StatementApplied(P, A, cs, c) ==
    LET allocs == {a \in A : a.charge \in {cs[i] : i \in 1..Len(cs)}
                             /\ P[a.payment].status = APPROVED}
    IN  IF {a \in allocs : a.charge = c} = {} THEN 0
        ELSE SumApplied({a \in allocs : a.charge = c})

\* get_unit_statement(unit, limit_months)
GetUnitStatement(P, C, A, u, limit) ==
    LET cs == StatementCharges(C, u, limit)
    IN  [i \in 1..Len(cs) |->
           LET applied == StatementApplied(P, A, cs, cs[i])
           IN  [period |-> C[cs[i]].period,
                amount |-> C[cs[i]].amount,
                applied |-> applied,
                balance |-> IF C[cs[i]].amount - applied < 0 THEN 0
                            ELSE C[cs[i]].amount - applied,
                status |-> C[cs[i]].status]]

MaxLimit == 2

\* the values of limit_months the callers pass
StatementLimits == 0..MaxLimit

\* get_unit_statement(unit, limit_months) called on the ledger
StatementQuery(u, limit) ==
    /\ last' = Outcome("statement", <<u, limit>>,
                       GetUnitStatement(payments, charges, allocations, u, limit), "")
    /\ UNCHANGED <<feeSchedules, charges, payments, allocations, now, handles, feeQuery, owners, visitVars, tx>>

NextLedger ==
    \/ \E c \in 1..Len(charges) : RecomputeStatus(c)
    \/ \E u \in UnitPks : BalanceQuery(u)
    \/ \E u \in UnitPks, limit \in StatementLimits : StatementQuery(u, limit)
    \/ \E c \in 1..Len(charges) : ApplyCredit(c)
    \/ \E s \in Sessions, p \in 1..MaxPayments : ApprovePayment(s, p)
    \/ \E s \in Sessions, p \in 1..MaxPayments, notes \in DirectNotes : RejectPayment(s, p, notes)
    \/ \E month \in GenDates : Generate("R1", month, month)

SpecLedger == InitLedger /\ [][NextLedger]_vars

----------------------------------------------------------------------------
\* the sum of the allocations on charge c whose payment is APPROVED
ApprovedSum(c) ==
    SumApplied({a \in allocations : a.charge = c /\ payments[a.payment].status = APPROVED})

\* C14: recompute_charge_status on a charge that is not VOID sets PENDING
\* when the allocations of APPROVED payments sum to zero or less, PARTIAL
\* when the sum is above zero and below the amount, PAID when it reaches the
\* amount; allocations of SUBMITTED and REJECTED payments do not count, and
\* nothing but the status of that charge changes.
C14_RecomputeStatus ==
    [][\A c \in ChargePks :
          (last'.op = "recompute" /\ last'.arg = c /\ charges[c].status # VOID)
          => /\ ApprovedSum(c) <= 0 => charges'[c].status = PENDING
             /\ (ApprovedSum(c) > 0 /\ ApprovedSum(c) < charges[c].amount)
                    => charges'[c].status = PARTIAL
             /\ ApprovedSum(c) >= charges[c].amount => charges'[c].status = PAID
             /\ charges' = [charges EXCEPT ![c].status = charges'[c].status]
             /\ payments' = payments
             /\ allocations' = allocations]_vars

\* a charge was recomputed to PARTIAL although all its allocations together
\* reach its amount: one of them is of a payment that is not APPROVED
C14_Witness ==
    /\ last.op = "recompute"
    /\ charges[last.arg].status = PARTIAL
    /\ SumApplied({a \in allocations : a.charge = last.arg}) >= charges[last.arg].amount
    /\ \E a \in allocations : a.charge = last.arg /\ payments[a.payment].status # APPROVED

\* C15: VOID is sticky.  No step of recompute_charge_status, credit
\* application, approve_payment, reject_payment or charge generation changes
\* the status of a charge whose stored status is VOID.
C15_VoidSticky ==
    [][\A c \in ChargePks : charges[c].status = VOID => charges'[c].status = VOID]_vars

\* a VOID charge with allocations of an APPROVED payment was recomputed
C15_Witness ==
    /\ last.op = "recompute"
    /\ charges[last.arg].status = VOID
    /\ ApprovedSum(last.arg) > 0

\* the charges of unit u among the first n, VOID ones left out: their amounts
RECURSIVE ChargedUpTo(_, _)
ChargedUpTo(u, n) ==
    IF n = 0 THEN 0
    ELSE ChargedUpTo(u, n - 1)
         + (IF charges[n].unit = u /\ charges[n].status # VOID THEN charges[n].amount ELSE 0)

\* the APPROVED payments of unit u among the first n: their amounts
RECURSIVE PaidUpTo(_, _)
PaidUpTo(u, n) ==
    IF n = 0 THEN 0
    ELSE PaidUpTo(u, n - 1)
         + (IF payments[n].unit = u /\ payments[n].status = APPROVED
            THEN payments[n].amount ELSE 0)

\* the allocations of APPROVED payments on the charges of unit u among the
\* first n, VOID ones included
RECURSIVE AppliedUpTo(_, _)
AppliedUpTo(u, n) ==
    IF n = 0 THEN 0
    ELSE AppliedUpTo(u, n - 1) + (IF charges[n].unit = u THEN ApprovedSum(n) ELSE 0)

\* C20: the balance query.  total_charged is the sum of the unit's charges
\* that are not VOID, total_applied the sum of the unit's allocations of
\* APPROVED payments, credit_available max(0, APPROVED payments less
\* total_applied), balance_due max(0, total_charged less total_applied),
\* unpaid_months the number of charges neither VOID nor PAID; nothing is
\* negative, and a unit without rows gets zero everywhere.
C20_UnitBalance ==
    last.op = "balance"
    => LET u == last.arg
           b == last.ret
           charged == ChargedUpTo(u, Len(charges))
           applied == AppliedUpTo(u, Len(charges))
           paid == PaidUpTo(u, Len(payments))
       IN  /\ b.total_charged = charged
           /\ b.total_applied = applied
           /\ b.credit_available = (IF paid - applied > 0 THEN paid - applied ELSE 0)
           /\ b.balance_due = (IF charged - applied > 0 THEN charged - applied ELSE 0)
           /\ b.unpaid_months =
                  Cardinality({c \in ChargePks : /\ charges[c].unit = u
                                                 /\ charges[c].status # VOID
                                                 /\ charges[c].status # PAID})
           /\ b.total_charged >= 0 /\ b.total_applied >= 0
           /\ b.credit_available >= 0 /\ b.balance_due >= 0 /\ b.unpaid_months >= 0
           /\ ((\A c \in ChargePks : charges[c].unit # u)
               /\ (\A p \in PaymentPks : payments[p].unit # u))
              => /\ b.total_charged = 0 /\ b.total_applied = 0
                 /\ b.credit_available = 0 /\ b.balance_due = 0
                 /\ b.unpaid_months = 0 /\ b.last_payment_at = NoTime

\* the balance of a unit whose applied total exceeds the charged total (a
\* VOID charge carries an allocation) and that has an allocation of a
\* payment that is not APPROVED
C20_Witness ==
    /\ last.op = "balance"
    /\ last.arg = "U1"
    /\ last.ret.balance_due = 0
    /\ last.ret.total_applied > last.ret.total_charged
    /\ \E a \in allocations : payments[a.payment].status # APPROVED
    /\ \E c \in ChargePks : charges[c].status = VOID /\ ApprovedSum(c) > 0

----------------------------------------------------------------------------
\* the status the allocations of charge c stand for
StatusOfSum(c) ==
    IF ApprovedSum(c) <= 0 THEN PENDING
    ELSE IF ApprovedSum(c) < charges[c].amount THEN PARTIAL
    ELSE PAID

\* C16: status always reflects the allocation sum.  In every state reached
\* through generation, credit application, approve_payment and
\* reject_payment, the stored status of every charge that is not VOID is the
\* one its allocations of APPROVED payments stand for.
C16_StatusReflectsSum ==
    \A c \in ChargePks : charges[c].status # VOID => charges[c].status = StatusOfSum(c)

----------------------------------------------------------------------------
\* the charges a step has created
NewCharges == (Len(charges) + 1)..Len(charges')

\* C17: a month without a fee never aborts generation.  A run raises
\* nothing; its missing-fee list holds exactly the months of the range that
\* have no fee, and no charge is created for those; every other month of the
\* range has, after the run, a charge for every unit of the community.
C17_MissingFeeDoesNotAbort ==
    [][last'.op = "generate"
       => LET res == last'.arg[1]
              months == MonthsOfRange(last'.arg[2], last'.arg[3])
              nofee == {m \in months : ~HasFee(res, m)}
          IN  /\ last'.note = ""
              /\ {last'.missing[n] : n \in 1..Len(last'.missing)} = nofee
              /\ Len(last'.missing) = Cardinality(nofee)
              /\ \A c \in NewCharges : charges'[c].period \notin nofee
              /\ \A m \in months \ nofee : \A u \in UnitsIn(res) :
                     \E c \in 1..Len(charges') :
                         charges'[c].unit = u /\ charges'[c].period = m]_vars

\* a run over December 2023 to March 2024 with the fee starting in January:
\* December is reported missing and the three later months got their charges
C17_Witness ==
    /\ last.op = "generate"
    /\ last.missing = <<<<2023, 12, 1>>>>
    /\ last.ret = 6
    /\ \A m \in {Jan2024, Feb2024, Mar2024} : \A u \in UnitPks : Charged(<<u, m>>)

----------------------------------------------------------------------------
\* the fee in force for community res in month m, by the schedules stored
FeeInForce(res, m) ==
    LET S == {f \in feeSchedules : /\ f.residential = res
                                   /\ DateKey(f.effective_from) <= DateKey(m)}
        f == CHOOSE x \in S : \A y \in S : DateKey(y.effective_from) <= DateKey(x.effective_from)
    IN  f.amount

\* what generation does to amounts and to the charges it finds: a new charge
\* carries the fee in force for its month, an existing charge is left as it is
GenerationKeepsAmounts ==
    last'.op = "generate"
    => /\ \A c \in NewCharges :
              charges'[c].amount = FeeInForce(charges'[c].residential, charges'[c].period)
       /\ \A c \in ChargePks : charges'[c] = charges[c]

\* C18: generation creates charges only for the active units of the
\* community; a new charge carries the resolved fee, and a charge that
\* exists for (unit, period) keeps its amount and status.
C18_ActiveUnitsOnly ==
    [][/\ GenerationKeepsAmounts
       /\ last'.op = "generate" => \A c \in NewCharges : UnitActive(charges'[c].unit)]_vars

\* the part of C18 that does not depend on is_active
C18_AmountsKept == [][GenerationKeepsAmounts]_vars

----------------------------------------------------------------------------
\* the unit's APPROVED payments with something left after the step
CreditAfter(u) ==
    {p \in 1..Len(payments') :
        /\ payments'[p].unit = u
        /\ payments'[p].status = APPROVED
        /\ payments'[p].amount - SumApplied({a \in allocations' : a.payment = p}) > 0}

\* C19: generation applies the credit that is there.  After a run that
\* started from a ledger whose statuses reflect its allocations, every unit
\* either has all the charges of the run PAID or has no APPROVED payment
\* with a remainder left; the credit goes to the new charges in the order of
\* their months: a charge of the run draws on credit only when the unit's
\* charges of the run for earlier months are PAID.
C19_GenerationAppliesCredit ==
    [][(last'.op = "generate" /\ C16_StatusReflectsSum)
       => \A u \in UnitPks :
              /\ \/ \A c \in NewCharges : charges'[c].unit = u => charges'[c].status = PAID
                 \/ CreditAfter(u) = {}
              /\ \A c, d \in NewCharges :
                     (/\ charges'[c].unit = u /\ charges'[d].unit = u
                      /\ DateLT(charges'[c].period, charges'[d].period)
                      /\ \E a \in allocations' : a.charge = d)
                     => charges'[c].status = PAID]_vars

\* a run created all six charges; the payment of 250 of unit U1 paid January
\* and February, left March PARTIAL and is used up
C19_Witness ==
    /\ last.op = "generate"
    /\ last.ret = 6
    /\ Len(charges) = 6
    /\ C16_StatusReflectsSum
    /\ Credit("U1") = {}
    /\ \E p \in PaymentPks : payments[p].status = APPROVED
    /\ \E c \in ChargePks : charges[c].unit = "U1" /\ charges[c].status = PARTIAL
    /\ \A c \in ChargePks :
           (charges[c].unit = "U1" /\ charges[c].period \in {Jan2024, Feb2024})
           => charges[c].status = PAID

----------------------------------------------------------------------------
\* C21: get_unit_statement(unit, limit) returns at most limit rows: the
\* limit most recent charges of the unit that are not VOID, in strictly
\* descending order of period, each with applied = the sum of the
\* allocations of the charge whose payment is APPROVED and balance =
\* max(0, amount - applied).  No VOID charge is in it, and no allocation of
\* a SUBMITTED or REJECTED payment is counted.
C21_UnitStatement ==
    last.op = "statement" =>
        LET u == last.arg[1]
            limit == last.arg[2]
            rows == last.ret
            live == {c \in ChargePks : charges[c].unit = u /\ charges[c].status # VOID}
            later(c) == {d \in live : DateLT(charges[c].period, charges[d].period)}
            recent == {c \in live : Cardinality(later(c)) < limit}
        IN  /\ Len(rows) <= limit
            /\ Len(rows) = Cardinality(recent)
            /\ \A i \in 1..Len(rows) :
                   /\ rows[i].status # VOID
                   /\ \E c \in recent :
                          /\ rows[i].period = charges[c].period
                          /\ rows[i].amount = charges[c].amount
                          /\ rows[i].status = charges[c].status
                          /\ rows[i].applied = ApprovedSum(c)
                          /\ rows[i].balance = Max2(0, charges[c].amount - ApprovedSum(c))
            /\ \A i, j \in 1..Len(rows) :
                   i < j => DateLT(rows[j].period, rows[i].period)

\* a statement of two rows for a unit with three charges that are not VOID;
\* a charge of the statement carries an allocation of a payment that is not
\* APPROVED, which its row does not count
C21_Witness ==
    /\ last.op = "statement"
    /\ last.arg = <<"U1", 2>>
    /\ Len(last.ret) = 2
    /\ Cardinality({c \in ChargePks : charges[c].unit = "U1" /\ charges[c].status # VOID}) = 3
    /\ \E i \in 1..2 : \E a \in allocations :
           /\ charges[a.charge].period = last.ret[i].period
           /\ charges[a.charge].unit = "U1"
           /\ payments[a.payment].status # APPROVED
           /\ last.ret[i].applied = ApprovedSum(a.charge)

----------------------------------------------------------------------------
\* C22: reject_payment on a SUBMITTED payment changes only the status, the
\* reviewer, the review timestamp and the notes of that payment.  No
\* allocation is created or removed, no charge changes, and every field of
\* the balance of the payment's unit is the same before and after the call,
\* also when the payment has allocations.
C22_RejectFrame ==
    [][\A s \in Sessions, p \in PaymentPks, notes \in DirectNotes :
          (/\ last'.op = "review"
           /\ payments[p].status = SUBMITTED
           /\ RejectPayment(s, p, notes))
          => /\ allocations' = allocations
             /\ charges' = charges
             /\ Len(payments') = Len(payments)
             /\ \A q \in PaymentPks \ {p} : payments'[q] = payments[q]
             /\ payments'[p].status = REJECTED
             /\ payments'[p] = [payments[p] EXCEPT
                                   !.status = payments'[p].status,
                                   !.reviewed_by = payments'[p].reviewed_by,
                                   !.reviewed_at = payments'[p].reviewed_at,
                                   !.review_notes = payments'[p].review_notes]
             /\ GetUnitBalance(payments', charges', allocations', payments[p].unit)
                    = GetUnitBalance(payments, charges, allocations, payments[p].unit)]_vars

\* a payment that has allocations was rejected by the last review
C22_Witness ==
    /\ last.op = "review"
    /\ last.note = ""
    /\ \E p \in PaymentPks :
           /\ payments[p].status = REJECTED
           /\ payments[p].reviewed_at = now - 1
           /\ payments[p].reviewed_at > Len(payments)
           /\ \E a \in allocations : a.payment = p

----------------------------------------------------------------------------
(* Saving rows: the admin forms validate the instance (full_clean calls
   Model.clean) before save_model runs; objects.create and get_or_create in
   the allocation engine and in charge generation save without validation. *)

\* a foreign key the form does not carry is unset on the instance
NoResidential == "none"

Superuser == "super"

\* the staff users, named by the community of their profile, and the superuser
Users == {Superuser} \cup Residentials

\* _user_residential(request)
UserResidential(user) == IF user = Superuser THEN NoResidential ELSE user

\* MonthlyCharge.clean
ChargeClean(row) ==
    /\ row.residential # NoResidential => UnitResidential(row.unit) = row.residential
    /\ row.period[3] = 1

\* PaymentSubmission.clean
PaymentClean(O, row) ==
    /\ row.residential # NoResidential => UnitResidential(row.unit) = row.residential
    /\ (row.owner # NoOwner /\ row.residential # NoResidential)
           => O[row.owner] = row.residential
    /\ row.owner # NoOwner => UnitOwner(row.unit) = row.owner

\* PaymentAllocation.clean
AllocationClean(P, C, row) ==
    /\ P[row.payment].residential = C[row.charge].residential
    /\ P[row.payment].unit = C[row.charge].unit
    /\ ~(row.amount_applied <= 0)

\* formfield_for_foreignkey: the units a user can choose on the form
UnitChoices(user) ==
    IF user = Superuser THEN UnitPks
    ELSE {u \in UnitPks : UnitResidential(u) = UserResidential(user)}

\* get_fields: the residential field is on the form of the superuser only
FormResidential(user, res) == IF user = Superuser THEN res ELSE NoResidential

\* save_model: the residential of a staff user is forced on the row
SavedResidential(user, res) == IF user = Superuser THEN res ELSE UserResidential(user)

ChargePeriods == {<<2024, 1, 1>>, <<2024, 1, 15>>}

InlineAmounts == {0, 60}

\* OwnerAdmin, the superuser: the community of an owner is edited
OwnerAdminSave(o, res) ==
    /\ owners[o] # res
    /\ owners' = [owners EXCEPT ![o] = res]
    /\ last' = Outcome("other", 0, 0, "")
    /\ UNCHANGED <<feeSchedules, charges, payments, allocations, now, handles, feeQuery, tx,
                   visitVars>>

\* MonthlyChargeAdmin, add view: form validation, then save_model
ChargeAdminAdd(user, res, u, period) ==
    /\ LET instance == [residential |-> FormResidential(user, res), unit |-> u,
                        period |-> period]
       IN  IF u \notin UnitChoices(user) \/ ~ChargeClean(instance)
              \/ ~ChargeUnique(charges, u, period)
           THEN /\ last' = Outcome("charge_add", 0, 0, "ValidationError")
                /\ UNCHANGED charges
           ELSE /\ charges' = Append(charges,
                        [residential |-> SavedResidential(user, res), unit |-> u,
                         period |-> period, amount |-> 100, status |-> PENDING])
                /\ last' = Outcome("charge_add", 0, 0, "")
    /\ UNCHANGED <<feeSchedules, payments, allocations, now, handles, feeQuery, tx,
                   owners, visitVars>>

\* PaymentSubmissionAdmin, add view: the form carries neither owner nor,
\* for a staff user, residential; save_model sets both after validation
PaymentAdminAdd(user, res, u, amount) ==
    /\ Len(payments) < MaxPayments
    /\ LET instance == [residential |-> FormResidential(user, res), unit |-> u,
                        owner |-> NoOwner]
       IN  IF u \notin UnitChoices(user) \/ ~PaymentClean(owners, instance)
              \/ UnitOwner(u) = NoOwner
           THEN /\ last' = Outcome("payment_add", 0, 0, "ValidationError")
                /\ UNCHANGED payments
           ELSE /\ payments' = Append(payments,
                        [residential |-> SavedResidential(user, res), unit |-> u,
                         owner |-> UnitOwner(u), amount |-> amount, status |-> SUBMITTED,
                         reviewed_by |-> NoUser, reviewed_at |-> NoTime,
                         review_notes |-> "", submitted_at |-> Len(payments) + 1])
                /\ last' = Outcome("payment_add", 0, 0, "")
    /\ UNCHANGED <<feeSchedules, charges, allocations, now, handles, feeQuery, tx,
                   owners, visitVars>>

\* PaymentAllocationInline on the change view of payment p
AllocationInlineAdd(p, c, amount) ==
    /\ p \in 1..Len(payments)
    /\ c \in 1..Len(charges)
    /\ LET instance == [payment |-> p, charge |-> c, amount_applied |-> amount]
       IN  IF ~AllocationClean(payments, charges, instance)
              \/ ~AllocationUnique(allocations, p, c)
           THEN /\ last' = Outcome("allocation_add", 0, 0, "ValidationError")
                /\ UNCHANGED allocations
           ELSE /\ allocations' = allocations \cup {instance}
                /\ last' = Outcome("allocation_add", 0, 0, "")
    /\ UNCHANGED <<feeSchedules, charges, payments, now, handles, feeQuery, tx,
                   owners, visitVars>>

InitSave ==
    /\ feeSchedules = {[residential |-> "R1", effective_from |-> <<2024, 1, 1>>, amount |-> 100]}
    /\ charges = <<>>
    /\ payments = <<>>
    /\ allocations = {}
    /\ now = 1
    /\ handles = [s \in Sessions |-> NoHandle]
    /\ last = Outcome("init", 0, 0, "")
    /\ feeQuery = NoQuery
    /\ tx = [s \in Sessions |-> NoTx]
    /\ owners = InitOwners
    /\ visitPass = NoPass
    /\ visitScans = <<>>
    /\ guards = [g \in Guards |-> NoScan]

NextSave ==
    \/ \E o \in OwnerPks, res \in Residentials : OwnerAdminSave(o, res)
    \/ \E user \in Users, res \in Residentials, u \in UnitPks, period \in ChargePeriods :
           ChargeAdminAdd(user, res, u, period)
    \/ \E user \in Users, res \in Residentials, u \in UnitPks, amount \in PaymentAmounts :
           PaymentAdminAdd(user, res, u, amount)
    \/ \E p \in 1..MaxPayments, c \in 1..Len(charges), amount \in InlineAmounts :
           AllocationInlineAdd(p, c, amount)
    \/ \E s \in Sessions, p \in 1..MaxPayments : ApprovePayment(s, p)
    \/ \E month \in GenDates : Generate("R1", month, month)
    \/ \E c \in 1..Len(charges) : ApplyCredit(c)

SpecSave == InitSave /\ [][NextSave]_vars

\* the rows a step has stored
StoredCharges == {charges'[c] : c \in (1..Len(charges')) \ (1..Len(charges))}
StoredPayments == {payments'[p] : p \in (1..Len(payments')) \ (1..Len(payments))}
StoredAllocations == allocations' \ allocations

\* C23: consistency violations are rejected before any write, on every path
\* that creates the rows: no step stores a charge whose period is not the
\* first of a month or whose community is not the community of its unit, a
\* payment whose community is not that of its unit or of its owner or whose
\* owner is not the current owner of the unit, or an allocation with an
\* amount of zero or less or between a payment and a charge of different
\* units or communities.
C23_ViolationsRejected ==
    [][/\ \A row \in StoredCharges :
              /\ row.period[3] = 1
              /\ row.residential = UnitResidential(row.unit)
       /\ \A row \in StoredPayments :
              /\ row.residential = UnitResidential(row.unit)
              /\ owners'[row.owner] = row.residential
              /\ row.owner = UnitOwner(row.unit)
       /\ \A row \in StoredAllocations :
              /\ row.amount_applied > 0
              /\ payments'[row.payment].unit = charges'[row.charge].unit
              /\ payments'[row.payment].residential = charges'[row.charge].residential]_vars

\* what does hold: no inconsistent charge and no inconsistent allocation is
\* stored, by the forms as by the engine
C23_ChargesAndAllocationsConsistent ==
    [][/\ \A row \in StoredCharges :
              /\ row.period[3] = 1
              /\ row.residential = UnitResidential(row.unit)
       /\ \A row \in StoredAllocations :
              /\ row.amount_applied > 0
              /\ payments'[row.payment].unit = charges'[row.charge].unit
              /\ payments'[row.payment].residential = charges'[row.charge].residential]_vars

----------------------------------------------------------------------------
(* Charge generation pass by pass.  generate_view runs outside any
   transaction: get_or_create commits the new charge, and the credit call on
   the object it returned comes later; tx[s] holds that object meanwhile.
   MonthlyChargeAdmin lets another request edit the status of the charge in
   between. *)

\* the statuses the change form of MonthlyChargeAdmin is used to set
EditedStatuses == {VOID, PAID}

\* the months of the range of the run, in the order of the outer loop
RunMonths == IterMonthStarts(<<2024, 2, 1>>, <<2024, 3, 1>>)

\* the loops have reached month j and unit i: every earlier pass found or
\* created its charge
PassIsNext(res, j, i) ==
    \A j2 \in 1..Len(RunMonths), i2 \in 1..Len(UnitsOf(res)) :
        (j2 < j \/ (j2 = j /\ i2 < i))
        => GetOrCreateLookup(charges, res, UnitsOf(res)[i2], RunMonths[j2]) # {}

\* one pass of the inner loop of generate_view up to get_or_create, where it
\* creates the charge
GenCreate(s, res, period, u) ==
    /\ tx[s] = NoTx
    /\ FeeForMonth(feeSchedules, res, period).found
    /\ GetOrCreateLookup(charges, res, u, period) = {}
    /\ ChargeUnique(charges, u, period)
    /\ charges' = Append(charges,
           [residential |-> res, unit |-> u, period |-> period,
            amount |-> FeeForMonth(feeSchedules, res, period).amount, status |-> PENDING])
    /\ tx' = [tx EXCEPT ![s] = [pc |-> "created", charge |-> Len(charges) + 1,
                                status |-> PENDING]]
    /\ last' = Outcome("other", 0, 0, "")
    /\ UNCHANGED <<feeSchedules, payments, allocations, now, handles, feeQuery,
                   owners, visitVars>>

\* MonthlyChargeAdmin, change view: the status of a charge is edited
ChargeAdminSetStatus(c, status) ==
    /\ c \in 1..Len(charges)
    /\ charges[c].status # status
    /\ charges' = [charges EXCEPT ![c].status = status]
    /\ last' = Outcome("other", 0, 0, "")
    /\ UNCHANGED <<feeSchedules, payments, allocations, now, handles, feeQuery, tx,
                   owners, visitVars>>

\* the pass goes on: apply_available_credit_to_charge(obj) on the object
\* get_or_create returned
GenApply(s) ==
    /\ tx[s] # NoTx
    /\ tx[s].pc = "created"
    /\ LET r == ApplyAvailableCreditToCharge(payments, charges, allocations,
                                             tx[s].charge, tx[s].status)
       IN  /\ charges' = r.charges
           /\ allocations' = r.allocations
           /\ last' = Outcome("apply", tx[s].charge, r.ret,
                              IF r.raised THEN "IntegrityError" ELSE "")
    /\ tx' = [tx EXCEPT ![s] = NoTx]
    /\ UNCHANGED <<feeSchedules, payments, now, handles, feeQuery, owners, visitVars>>

NextStale ==
    \/ \E u \in UnitPks, amount \in PaymentAmounts : SubmitPayment(u, amount)
    \/ \E s \in Sessions, p \in 1..MaxPayments : ApprovePayment(s, p)
    \/ \E s \in Sessions, j \in 1..Len(RunMonths), i \in 1..Len(UnitsOf("R1")) :
           PassIsNext("R1", j, i) /\ GenCreate(s, "R1", RunMonths[j], UnitsOf("R1")[i])
    \/ \E c \in 1..Len(charges), status \in EditedStatuses : ChargeAdminSetStatus(c, status)
    \/ \E s \in Sessions : GenApply(s)
    \/ \E c \in 1..Len(charges) : ApplyCredit(c)

SpecStale == InitSave /\ [][NextStale]_vars

\* C24: a charge whose stored status is PAID or VOID when the credit call
\* takes its row lock receives no allocation from the call, also when the
\* object the caller passed was read earlier and still shows PENDING or
\* PARTIAL.
C24_NoAllocationOnFrozen ==
    [][\A c \in ChargePks :
          (last'.op = "apply" /\ charges[c].status \in {PAID, VOID})
          => {a \in allocations' : a.charge = c} = {a \in allocations : a.charge = c}]_vars

----------------------------------------------------------------------------
\* C25: the engine never hits the uniqueness of allocations.  There is at
\* most one allocation per (payment, charge); a credit call, alone or inside
\* charge generation, never fails on the unique constraint, that is, no
\* allocation (P, C) exists when it selects P for C; and an allocation
\* (P, C) it creates leaves P with nothing remaining or C with no balance.
C25_AllocationUniqueness ==
    [][/\ \A a, b \in allocations' :
              (a.payment = b.payment /\ a.charge = b.charge) => a = b
       /\ last'.op \in {"apply", "generate"} => last'.note # "IntegrityError"
       /\ \A a \in allocations' \ allocations :
              \/ PaymentRemaining(payments', allocations', a.payment) = 0
              \/ ChargeBalance(payments', charges', allocations', a.charge) = 0]_vars

\* a credit call has just added a second allocation, from another payment,
\* to a charge that already had one
C25_Witness ==
    /\ last.op = "apply"
    /\ last.note = ""
    /\ last.ret > 0
    /\ Cardinality({a.payment : a \in {x \in allocations : x.charge = last.arg}}) = 2

----------------------------------------------------------------------------
\* C26: every allocation a credit call creates, alone or inside charge
\* generation, links a payment and a charge of the same unit and the same
\* community, comes from a payment that is APPROVED when it is created, and
\* has an amount above zero.
C26_EngineAllocationsValid ==
    [][last'.op \in {"apply", "generate"} =>
          \A a \in allocations' \ allocations :
              /\ payments'[a.payment].unit = charges'[a.charge].unit
              /\ payments'[a.payment].residential = charges'[a.charge].residential
              /\ payments[a.payment].status = APPROVED
              /\ payments'[a.payment].status = APPROVED
              /\ a.amount_applied > 0]_vars

\* generation has just created charges for both units of the community and
\* applied the credit of U1 to the charge of U1; the charge of U2 got nothing
C26_Witness ==
    /\ last.op = "generate"
    /\ \E a \in allocations : charges[a.charge].unit = "U1" /\ payments[a.payment].unit = "U1"
    /\ \E c \in ChargePks :
           /\ charges[c].unit = "U2"
           /\ charges[c].status = PENDING
           /\ {a \in allocations : a.charge = c} = {}
    /\ \E p \in PaymentPks :
           /\ payments[p].status = APPROVED
           /\ PaymentRemaining(payments, allocations, p) > 0

----------------------------------------------------------------------------
(* Guard scans of a visit pass (visits/views.py).  GuardScanView.post runs
   outside any transaction and takes no lock: it reads the pass, decides on
   the object in memory, saves first_in_at and first_out_at, then creates
   the VisitScan row.  Requests of several guards interleave between these
   statements. *)

MaxScans == 3

MaxClock == 3

ScanTypes == {"IN", "OUT"}

\* the code of the pass, and a code no pass of the community has
PassCode == "code"
Codes == {PassCode, "other"}

\* steps 2 and 3 of post on the object vp read from the store, at time t:
\* whether the scan is accepted, the object as post leaves it, the detail
ScanRules(vp, scan_type, t) ==
    IF vp.revoked_at # NoTime
    THEN [ok |-> FALSE, vp |-> vp, detail |-> "QR revocado."]
    ELSE IF ~(vp.arrival_at <= t /\ t <= vp.valid_until)
    THEN [ok |-> FALSE, vp |-> vp, detail |-> "QR fuera de vigencia."]
    ELSE IF vp.one_time_use
    THEN IF scan_type = "IN"
         THEN IF vp.first_in_at # NoTime
              THEN [ok |-> FALSE, vp |-> vp, detail |-> "Este QR ya fue usado para entrada."]
              ELSE [ok |-> TRUE, vp |-> [vp EXCEPT !.first_in_at = t], detail |-> ""]
         ELSE IF vp.first_in_at = NoTime
              THEN [ok |-> FALSE, vp |-> vp, detail |-> "Primero debe registrarse la entrada."]
              ELSE IF vp.first_out_at # NoTime
              THEN [ok |-> FALSE, vp |-> vp, detail |-> "Este QR ya fue usado para salida."]
              ELSE [ok |-> TRUE, vp |-> [vp EXCEPT !.first_out_at = t], detail |-> ""]
    ELSE [ok |-> TRUE,
          vp |-> [vp EXCEPT
                    !.first_in_at = IF scan_type = "IN" /\ @ = NoTime THEN t ELSE @,
                    !.first_out_at = IF scan_type = "OUT" /\ @ = NoTime THEN t ELSE @],
          detail |-> ""]

\* a pass created by an owner, valid from time 1 to time 2, revoked or not
InitVisit ==
    /\ feeSchedules = {}
    /\ charges = <<>>
    /\ payments = <<>>
    /\ allocations = {}
    /\ now = 1
    /\ handles = [s \in Sessions |-> NoHandle]
    /\ last = Outcome("init", 0, 0, "")
    /\ feeQuery = NoQuery
    /\ tx = [s \in Sessions |-> NoTx]
    /\ owners = InitOwners
    /\ \E one \in BOOLEAN, revoked \in {NoTime, 1} :
           visitPass = [one_time_use |-> one, arrival_at |-> 1, valid_until |-> 2,
                        first_in_at |-> NoTime, first_out_at |-> NoTime,
                        revoked_at |-> revoked]
    /\ visitScans = <<>>
    /\ guards = [g \in Guards |-> NoScan]

\* time passes
Tick ==
    /\ now < MaxClock
    /\ now' = now + 1
    /\ last' = Outcome("other", 0, 0, "")
    /\ UNCHANGED <<feeSchedules, charges, payments, allocations, handles, feeQuery, tx,
                   owners, visitVars>>

\* the scans recorded and those of the requests in flight
ScansStarted == Len(visitScans) + Cardinality({g \in Guards : guards[g] # NoScan})

\* post up to the save: the pass is looked up and the rules are applied to
\* the object read; a refused scan returns its error response here
ScanRead(g, code, scan_type) ==
    /\ guards[g] = NoScan
    /\ ScansStarted < MaxScans
    /\ IF code # PassCode
       THEN /\ last' = Outcome("scan", scan_type, 404,
                               "Código no encontrado para este residencial.")
            /\ UNCHANGED guards
       ELSE LET r == ScanRules(visitPass, scan_type, now)
            IN  IF ~r.ok
                THEN /\ last' = Outcome("scan", scan_type, 400, r.detail)
                     /\ UNCHANGED guards
                ELSE /\ guards' = [guards EXCEPT ![g] =
                                     [pc |-> "save", vp |-> r.vp, scan_type |-> scan_type]]
                     /\ last' = Outcome("other", 0, 0, "")
    /\ UNCHANGED <<feeSchedules, charges, payments, allocations, now, handles, feeQuery, tx,
                   owners, visitPass, visitScans>>

\* vp.save(update_fields=["first_in_at", "first_out_at"])
ScanSave(g) ==
    /\ guards[g] # NoScan
    /\ guards[g].pc = "save"
    /\ visitPass' = [visitPass EXCEPT !.first_in_at = guards[g].vp.first_in_at,
                                      !.first_out_at = guards[g].vp.first_out_at]
    /\ guards' = [guards EXCEPT ![g].pc = "audit"]
    /\ last' = Outcome("other", 0, 0, "")
    /\ UNCHANGED <<feeSchedules, charges, payments, allocations, now, handles, feeQuery, tx,
                   owners, visitScans>>

\* VisitScan.objects.create(visit_pass=vp, scan_type=scan_type, ...)
ScanAudit(g) ==
    /\ guards[g] # NoScan
    /\ guards[g].pc = "audit"
    /\ visitScans' = Append(visitScans, [scan_type |-> guards[g].scan_type, scanned_at |-> now])
    /\ guards' = [guards EXCEPT ![g] = NoScan]
    /\ last' = Outcome("scan", guards[g].scan_type, 0, "")
    /\ UNCHANGED <<feeSchedules, charges, payments, allocations, now, handles, feeQuery, tx,
                   owners, visitPass>>

NextVisit ==
    \/ Tick
    \/ \E g \in Guards, code \in Codes, scan_type \in ScanTypes : ScanRead(g, code, scan_type)
    \/ \E g \in Guards : ScanSave(g)
    \/ \E g \in Guards : ScanAudit(g)

SpecVisit == InitVisit /\ [][NextVisit]_vars

\* the recorded scans of a type
ScansOf(scans, scan_type) == {i \in 1..Len(scans) : scans[i].scan_type = scan_type}

\* C27: for a pass with one_time_use, over any interleaving of scan requests,
\* at most one IN scan and at most one OUT scan are ever recorded, an OUT is
\* recorded only when an entry has been registered, first_in_at and
\* first_out_at are each written at most once (a value, once set, stays),
\* and a refused scan records no VisitScan row.
C27_OneTimeUse ==
    [][visitPass.one_time_use =>
          /\ Cardinality(ScansOf(visitScans', "IN")) <= 1
          /\ Cardinality(ScansOf(visitScans', "OUT")) <= 1
          /\ ScansOf(visitScans', "OUT") # {} => visitPass'.first_in_at # NoTime
          /\ visitPass.first_in_at # NoTime => visitPass'.first_in_at = visitPass.first_in_at
          /\ visitPass.first_out_at # NoTime => visitPass'.first_out_at = visitPass.first_out_at
          /\ (last'.op = "scan" /\ last'.note # "") => visitScans' = visitScans]_vars

\* what does hold: a refused scan writes nothing, and no OUT is recorded
\* unless an entry is registered
C27_RefusedScanWritesNothing ==
    [][/\ (last'.op = "scan" /\ last'.note # "")
              => (visitScans' = visitScans /\ visitPass' = visitPass)
       /\ (visitPass.one_time_use /\ ScansOf(visitScans', "OUT") # {})
              => visitPass'.first_in_at # NoTime]_vars

----------------------------------------------------------------------------
\* C28: greedy completeness.  When a credit call returns on a charge that
\* was PENDING or PARTIAL, either the charge has no balance left and is
\* PAID, or no APPROVED payment of the same unit and community has anything
\* unallocated; and the amount returned is the sum of the allocations the
\* call created, the decrease of the balance of the charge, and the
\* decrease of credit_available of the unit.
C28_GreedyCompleteness ==
    [][\A c \in ChargePks :
          (/\ last'.op = "apply"
           /\ last'.arg = c
           /\ last'.note = ""
           /\ charges[c].status \in {PENDING, PARTIAL})
          => LET u == charges[c].unit
                 before == GetUnitBalance(payments, charges, allocations, u)
                 after == GetUnitBalance(payments', charges', allocations', u)
             IN  /\ \/ /\ ChargeBalance(payments', charges', allocations', c) = 0
                       /\ charges'[c].status = PAID
                    \/ \A p \in 1..Len(payments') :
                           (/\ payments'[p].status = APPROVED
                            /\ payments'[p].unit = u
                            /\ payments'[p].residential = charges[c].residential)
                           => PaymentRemaining(payments', allocations', p) <= 0
                 /\ last'.ret = SumApplied(allocations' \ allocations)
                 /\ \A a \in allocations' \ allocations : a.charge = c
                 /\ last'.ret = ChargeBalance(payments, charges, allocations, c)
                                  - ChargeBalance(payments', charges', allocations', c)
                 /\ last'.ret = before.credit_available - after.credit_available]_vars

\* what does hold on every ledger: the call ends with no balance on the
\* charge or no credit left for it, a call that allocated down to balance
\* zero leaves the charge PAID, and the amount returned is the sum of the
\* allocations created, the decrease of the balance and the decrease of
\* credit_available
C28_AmountsAccounted ==
    [][\A c \in ChargePks :
          (/\ last'.op = "apply"
           /\ last'.arg = c
           /\ last'.note = ""
           /\ charges[c].status \in {PENDING, PARTIAL})
          => LET u == charges[c].unit
                 before == GetUnitBalance(payments, charges, allocations, u)
                 after == GetUnitBalance(payments', charges', allocations', u)
             IN  /\ \/ ChargeBalance(payments', charges', allocations', c) = 0
                    \/ \A p \in 1..Len(payments') :
                           (/\ payments'[p].status = APPROVED
                            /\ payments'[p].unit = u
                            /\ payments'[p].residential = charges[c].residential)
                           => PaymentRemaining(payments', allocations', p) <= 0
                 /\ (ChargeBalance(payments', charges', allocations', c) = 0 /\ last'.ret > 0)
                        => charges'[c].status = PAID
                 /\ last'.ret = SumApplied(allocations' \ allocations)
                 /\ last'.ret = ChargeBalance(payments, charges, allocations, c)
                                  - ChargeBalance(payments', charges', allocations', c)
                 /\ last'.ret = before.credit_available - after.credit_available]_vars

----------------------------------------------------------------------------
\* the sum of the balance column of a statement
RECURSIVE SumBalanceFrom(_, _)
SumBalanceFrom(rows, i) ==
    IF i > Len(rows) THEN 0 ELSE rows[i].balance + SumBalanceFrom(rows, i + 1)

\* the statement of a unit over all its charges
FullStatement(u) == GetUnitStatement(payments, charges, allocations, u, Len(charges))

\* C29: balance and statement agree.  In every ledger state, also after a
\* charge that has allocations was set to VOID, balance_due of
\* get_unit_balance equals the sum of the balance column of
\* get_unit_statement taken over all charges of the unit that are not VOID.
C29_BalanceMatchesStatement ==
    \A u \in UnitPks :
        GetUnitBalance(payments, charges, allocations, u).balance_due
            = SumBalanceFrom(FullStatement(u), 1)

\* what does hold: balance_due is never above the sum of the statement
C29_BalanceAtMostStatement ==
    \A u \in UnitPks :
        GetUnitBalance(payments, charges, allocations, u).balance_due
            <= SumBalanceFrom(FullStatement(u), 1)

\* the ledger of the divergence: the charge of February was paid with 100
\* of credit and then set to VOID, the charge of March is PENDING with no
\* allocation; the balance query nets the 100 against March
C29_Witness ==
    /\ \E c, d \in ChargePks :
           /\ charges[c].unit = "U1" /\ charges[c].status = VOID
           /\ SumApplied({a \in allocations : a.charge = c}) = 100
           /\ charges[d].unit = "U1" /\ charges[d].status = PENDING
           /\ {a \in allocations : a.charge = d} = {}
           /\ Cardinality({x \in ChargePks : charges[x].unit = "U1"}) = 2
    /\ \A a \in allocations : payments[a.payment].status = APPROVED
    /\ GetUnitBalance(payments, charges, allocations, "U1").balance_due = 0
    /\ SumBalanceFrom(FullStatement("U1"), 1) = 100

----------------------------------------------------------------------------
\* the place of a status on the way PENDING -> PARTIAL -> PAID
StatusRank(status) ==
    IF status = PENDING THEN 0 ELSE IF status = PARTIAL THEN 1 ELSE 2

\* while every allocation belongs to an APPROVED payment, no step moves the
\* stored status of a charge that is not VOID backwards; a regression needs
\* the allocations of a payment that left APPROVED
C30_ForwardWhileApproved ==
    [][(\A a \in allocations : payments[a.payment].status = APPROVED)
          => \A c \in ChargePks :
                 charges[c].status # VOID /\ charges'[c].status # VOID
                     => StatusRank(charges'[c].status) >= StatusRank(charges[c].status)]_vars

\* C30: charge status never regresses.  Under any sequence of generation,
\* credit application, approve_payment and reject_payment the status of a
\* charge that is not VOID only moves forward along PENDING -> PARTIAL ->
\* PAID, and the sum of its allocations of APPROVED payments never decreases.
C30_StatusNeverRegresses ==
    [][\A c \in ChargePks :
           charges[c].status # VOID
               => /\ charges'[c].status # VOID
                  /\ StatusRank(charges'[c].status) >= StatusRank(charges[c].status)
                  /\ ApprovedSum(c)' >= ApprovedSum(c)]_vars

====
